---- MODULE Spec2Model ----
(***************************************************************************)
(* A model of the placement portal's request handlers                      *)
(* (server/src/index.js): the in-memory stores, the id counters and one    *)
(* action per HTTP handler.  Every handler of index.js except register and *)
(* login runs without an await, so a handler is one atomic step; a book    *)
(* request is additionally kept "in flight" between its arrival and the    *)
(* run of its handler, so that requests can overlap.                       *)
(*                                                                         *)
(* Request-body values and route parameters are strings (a tuple of        *)
(* one-character strings); a JSON number is represented by its decimal     *)
(* text, which is what parseInt and parseFloat convert their argument to.  *)
(* A CGPA is counted in tenths of a point (75 is 7.5).                     *)
(***************************************************************************)
EXTENDS Integers, Sequences, FiniteSets, TLC

(***************************************************************************)
(* Bounds of the model.                                                    *)
(***************************************************************************)
\* The seed loop is modelled on the window SeedFirst .. SeedFirst+SeedCount-1
\* of its 142 iterations.
SeedFirst == 9
SeedCount == 2
\* Mentorship slots created, book requests received.
MaxSlots == 2
MaxBookRequests == 3
\* Drives created, applications stored.
MaxDrives == 2
MaxApplications == 2
\* Job referrals posted.
MaxJobs == 2
\* Pieces a question to the bot is made of, questions the bot answers.
MaxPieces == 3
MaxQuestions == 1
MaxRegisterRequests == 3

(***************************************************************************)
(* JavaScript values and conversions.                                      *)
(***************************************************************************)
\* The value of a request-body field that is absent.
Undefined == <<"undefined">>

\* !v for a string or undefined v.
Falsy(v) == v = Undefined \/ v = <<>>

Digits == {"0", "1", "2", "3", "4", "5", "6", "7", "8", "9"}

DigitVal(c) ==
  CASE c = "0" -> 0 [] c = "1" -> 1 [] c = "2" -> 2 [] c = "3" -> 3
    [] c = "4" -> 4 [] c = "5" -> 5 [] c = "6" -> 6 [] c = "7" -> 7
    [] c = "8" -> 8 [] c = "9" -> 9

\* A number or NaN.
NaN == [nan |-> TRUE, n |-> 0]
Num(k) == [nan |-> FALSE, n |-> k]

\* The length of the longest prefix of s made of digits.
RECURSIVE DigitPrefixLen(_)
DigitPrefixLen(s) ==
  IF s = <<>> \/ Head(s) \notin Digits THEN 0 ELSE 1 + DigitPrefixLen(Tail(s))

\* The value of a string of digits.
RECURSIVE DigitsValue(_)
DigitsValue(s) ==
  IF s = <<>> THEN 0
  ELSE 10 * DigitsValue(SubSeq(s, 1, Len(s) - 1)) + DigitVal(s[Len(s)])

\* parseInt(v): an optional sign, then the longest run of digits; NaN when
\* there is none (undefined is converted to the text "undefined").
ParseInt(v) ==
  LET neg  == v # <<>> /\ Head(v) = "-"
      rest == IF v # <<>> /\ Head(v) \in {"-", "+"} THEN Tail(v) ELSE v
      k    == DigitPrefixLen(rest)
      m    == DigitsValue(SubSeq(rest, 1, k))
  IN IF k = 0 THEN NaN ELSE Num(IF neg THEN 0 - m ELSE m)

\* parseFloat(v), in tenths: an optional sign, digits, and an optional point
\* followed by digits; NaN when there is no digit.  The values parsed here
\* have at most one digit after the point.
ParseFloat(v) ==
  LET neg   == v # <<>> /\ Head(v) = "-"
      rest  == IF v # <<>> /\ Head(v) \in {"-", "+"} THEN Tail(v) ELSE v
      k     == DigitPrefixLen(rest)
      after == SubSeq(rest, k + 1, Len(rest))
      frac  == IF after # <<>> /\ Head(after) = "." THEN Tail(after) ELSE <<>>
      f     == DigitPrefixLen(frac)
      m     == 10 * DigitsValue(SubSeq(rest, 1, k))
                 + (IF f = 0 THEN 0 ELSE DigitVal(frac[1]))
  IN IF k = 0 /\ f = 0 THEN NaN ELSE Num(IF neg THEN 0 - m ELSE m)

\* x || d for a number x: d when x is NaN or 0.
OrDefault(x, d) == IF x.nan \/ x.n = 0 THEN d ELSE x.n

\* array.find / array.findIndex: the first of the indices (1-based) whose
\* element passes the test; 0 when none does (undefined or -1 in the code).
First(indices) ==
  IF indices = {} THEN 0
  ELSE CHOOSE i \in indices : \A j \in indices : i <= j

(***************************************************************************)
(* State.                                                                  *)
(***************************************************************************)
VARIABLES
  users, nextUserId,
  studentProfiles,
  drives, nextDriveId,
  applications, nextApplicationId,
  mentorshipSlots, nextSlotId,
  mentorshipBookings, nextBookingId,
  alumniJobs, nextJobId,
  registrations,     \* register requests that await their password hash
  nextRegistration,  \* number of register requests received so far, plus one
  registerResponses, \* the responses sent to register requests
  asked,         \* number of questions the bot has answered
  inflight,      \* book requests received whose handler has not run yet
  nextRequest,   \* number of book requests received so far, plus one
  bookResponses, \* the responses sent to book requests
  raced,         \* pairs of book requests that were in flight together for
                 \* the last open seat of a slot
  lastResp       \* the response sent last

vars ==
  <<users, nextUserId, studentProfiles, drives, nextDriveId, applications,
    nextApplicationId, mentorshipSlots, nextSlotId, mentorshipBookings,
    nextBookingId, alumniJobs, nextJobId, asked, inflight, nextRequest,
    bookResponses, raced, lastResp, registrations, nextRegistration,
    registerResponses>>

identityVars == <<users, nextUserId, studentProfiles>>
authVars == <<registrations, nextRegistration, registerResponses>>
driveVars == <<drives, nextDriveId, applications, nextApplicationId>>
jobVars == <<alumniJobs, nextJobId>>
mentorVars ==
  <<mentorshipSlots, nextSlotId, mentorshipBookings, nextBookingId,
    inflight, nextRequest, bookResponses, raced>>

\* req.user.id comes from the token, not from the user store: a student or
\* alumnus is any id the token may carry.
SeedIds == SeedFirst .. (SeedFirst + SeedCount - 1)
StudentIds == SeedFirst .. (SeedFirst + SeedCount)
AlumniIds == {SeedFirst + SeedCount + 1, SeedFirst + SeedCount + 2}
\* The alumnus whose slots the mentorship runs follow: no mentorship write
\* depends on who owns a slot.
SlotOwnerIds == {SeedFirst + SeedCount + 1}
TpoIds == {SeedFirst + SeedCount + 3}

\* A CGPA the seed loop may draw: 7.5 + Math.random() * 2.5.
SeedCgpas == {75, 82, 99}

\* String(n) for a natural number n.
RECURSIVE DecimalText(_)
DecimalText(n) ==
  LET digit == CHOOSE c \in Digits : DigitVal(c) = n % 10
  IN IF n < 10 THEN <<digit>> ELSE Append(DecimalText(n \div 10), digit)

\* `student${i}@example.com`
SeedEmail(i) ==
  <<"s", "t", "u", "d", "e", "n", "t">> \o DecimalText(i)
    \o <<"@", "e", "x", "a", "m", "p", "l", "e", ".", "c", "o", "m">>

SeedUser(i) ==
  [id |-> i,
   email |-> SeedEmail(i),
   role |-> <<"S", "T", "U", "D", "E", "N", "T">>]

SeedProfile(i, c) ==
  [userId |-> i,
   branch |-> IF i % 3 = 0 THEN "Electronics" ELSE "Computer Science",
   cgpa |-> c,
   currentBacklogs |-> IF i % 10 = 0 THEN 1 ELSE 0,
   skills |-> <<<<"J", "a", "v", "a", "S", "c", "r", "i", "p", "t">>,
                <<"R", "e", "a", "c", "t">>>>]

\* A response: the handler that sent it, the caller, the route parameter of
\* the request, the status, the id of the entity a 201 created, and the list
\* and the count a read returned.
NoResp ==
  [op |-> "none", user |-> 0, arg |-> <<>>, status |-> 0, id |-> 0,
   list |-> <<>>, count |-> 0]

Resp(op, user, arg, status, id, list, count) ==
  [op |-> op, user |-> user, arg |-> arg, status |-> status, id |-> id,
   list |-> list, count |-> count]

Init ==
  /\ users = [k \in 1..SeedCount |-> SeedUser(SeedFirst + k - 1)]
  /\ nextUserId = SeedFirst + SeedCount
  /\ \E c \in [1..SeedCount -> SeedCgpas] :
       studentProfiles =
         [k \in 1..SeedCount |-> SeedProfile(SeedFirst + k - 1, c[k])]
  /\ drives = <<>>
  /\ nextDriveId = 1
  /\ applications = <<>>
  /\ nextApplicationId = 1
  /\ mentorshipSlots = <<>>
  /\ nextSlotId = 1
  /\ mentorshipBookings = <<>>
  /\ nextBookingId = 1
  /\ alumniJobs = <<>>
  /\ nextJobId = 1
  /\ asked = 0
  /\ inflight = {}
  /\ nextRequest = 1
  /\ bookResponses = {}
  /\ raced = {}
  /\ lastResp = NoResp
  /\ registrations = {}
  /\ nextRegistration = 1
  /\ registerResponses = {}

\* The state after construction with one draw of the seeded CGPAs.
InitOneDraw ==
  Init /\ \A k \in DOMAIN studentProfiles : studentProfiles[k].cgpa = 75

(***************************************************************************)
(* Mentorship scheduler.                                                   *)
(***************************************************************************)
\* Values a client may send for slotStart, slotEnd and maxStudents.
SlotStartValues == {Undefined, <<"9">>}
SlotEndValues == {<<>>, <<"9">>}
MaxStudentsValues == {Undefined, <<"0">>, <<"2", "a">>, <<"-", "1">>}

\* The slot createSlot stores.
NewSlot(alumniId, maxStudents) ==
  [id |-> nextSlotId,
   alumniUserId |-> alumniId,
   maxStudents |-> OrDefault(ParseInt(maxStudents), 1),
   currentBookings |-> 0,
   status |-> "AVAILABLE"]

\* The slot a book request names: the index in mentorshipSlots of the first
\* slot whose id is parseInt(req.params.slotId), 0 when there is none.
SlotIndex(slots, slotIdParam) ==
  First({i \in DOMAIN slots :
           ~ParseInt(slotIdParam).nan /\ slots[i].id = ParseInt(slotIdParam).n})

\* Pairs of requests (their rids) of different students in flight for the
\* same slot while that slot has exactly one open seat.
RacingPairs(slots, flying) ==
  {pair \in SUBSET {r.rid : r \in flying} :
     \E r1, r2 \in flying :
       /\ pair = {r1.rid, r2.rid}
       /\ r1.studentId # r2.studentId
       /\ SlotIndex(slots, r1.slotId) # 0
       /\ SlotIndex(slots, r1.slotId) = SlotIndex(slots, r2.slotId)
       /\ LET slot == slots[SlotIndex(slots, r1.slotId)]
          IN /\ slot.status = "AVAILABLE"
             /\ slot.maxStudents - slot.currentBookings = 1}

\* POST /api/alumni/mentorship-slots.  The effect of the request is the
\* stored slot; the answer (201 with the slot, 400 without a start or an
\* end) is not recorded.
CreateSlot(alumniId, slotStart, slotEnd, maxStudents) ==
  /\ IF Falsy(slotStart) \/ Falsy(slotEnd)
     THEN UNCHANGED <<mentorshipSlots, nextSlotId, raced>>
     ELSE /\ Len(mentorshipSlots) < MaxSlots
          /\ mentorshipSlots' =
               Append(mentorshipSlots, NewSlot(alumniId, maxStudents))
          /\ nextSlotId' = nextSlotId + 1
          /\ raced' = raced \cup RacingPairs(mentorshipSlots', inflight)
  /\ UNCHANGED <<mentorshipBookings, nextBookingId, inflight, nextRequest,
                 bookResponses, lastResp>>
  /\ UNCHANGED <<identityVars, authVars, jobVars, driveVars, asked>>

\* Values a client may send as the :slotId route parameter.
SlotIdParams == {<<"1">>, <<"2", "a">>, <<"x">>}

\* A book request reaches the server; its handler has not run yet.
BookArrive(studentId, slotIdParam) ==
  /\ nextRequest <= MaxBookRequests
  /\ inflight' = inflight \cup
       {[rid |-> nextRequest, studentId |-> studentId,
         slotId |-> slotIdParam, pc |-> "received"]}
  /\ nextRequest' = nextRequest + 1
  /\ raced' = raced \cup RacingPairs(mentorshipSlots, inflight')
  /\ UNCHANGED <<mentorshipSlots, nextSlotId, mentorshipBookings,
                 nextBookingId, bookResponses, lastResp>>
  /\ UNCHANGED <<identityVars, authVars, jobVars, driveVars, asked>>

\* A capacity check that lets a full slot through.
SlotUnavailableOffByOne(slot) == slot.currentBookings > slot.maxStudents

\* slot.status !== 'AVAILABLE' || slot.currentBookings >= slot.maxStudents
SlotUnavailable(slot) ==
  slot.status # "AVAILABLE" \/ slot.currentBookings >= slot.maxStudents

\* A lookup of the student's booking that compares the wrong field.
ExistingBookingWrongField(slotIdParam, studentId) ==
  First({k \in DOMAIN mentorshipBookings :
           /\ mentorshipBookings[k].slotId = ParseInt(slotIdParam).n
           /\ mentorshipBookings[k].id = studentId})

\* mentorshipBookings.find(b => b.slotId === slotId && b.studentId ===
\* req.user.id), as an index; 0 when there is none.
ExistingBooking(slotIdParam, studentId) ==
  First({k \in DOMAIN mentorshipBookings :
           /\ mentorshipBookings[k].slotId = ParseInt(slotIdParam).n
           /\ mentorshipBookings[k].studentId = studentId})

\* A slot whose count goes down with a booking.
SlotBookedCountingDown(slot) ==
  [slot EXCEPT !.currentBookings = slot.currentBookings - 1]

\* A status update that misses the slot's last seat.
SlotBookedLate(slot) ==
  [slot EXCEPT !.currentBookings = slot.currentBookings + 1,
               !.status = IF slot.currentBookings + 1 > slot.maxStudents
                          THEN "FULL" ELSE slot.status]

\* The slot after slot.currentBookings++ and the status update.
SlotBooked(slot) ==
  [slot EXCEPT !.currentBookings = slot.currentBookings + 1,
               !.status = IF slot.currentBookings + 1 >= slot.maxStudents
                          THEN "FULL" ELSE slot.status]

\* The status the book handler answers request r with.
BookStatus(r) ==
  LET i == SlotIndex(mentorshipSlots, r.slotId)
  IN IF i = 0 THEN 404
     ELSE IF SlotUnavailable(mentorshipSlots[i]) THEN 400
     ELSE IF ExistingBooking(r.slotId, r.studentId) # 0 THEN 409
     ELSE 201

\* The book handler answers request r.
BookReply(r, status) ==
  /\ inflight' = inflight \ {r}
  /\ bookResponses' = bookResponses \cup
       {[rid |-> r.rid, studentId |-> r.studentId, slotId |-> r.slotId,
         status |-> status]}

\* A booking that is stored without being counted on its slot.
BookCommitUncounted(r) ==
  /\ mentorshipBookings' =
       Append(mentorshipBookings,
              [id |-> nextBookingId, slotId |-> ParseInt(r.slotId).n,
               studentId |-> r.studentId, status |-> "CONFIRMED"])
  /\ nextBookingId' = nextBookingId + 1
  /\ UNCHANGED mentorshipSlots

\* The writes of a successful booking for request r.
BookCommit(r) ==
  LET i == SlotIndex(mentorshipSlots, r.slotId)
  IN /\ mentorshipBookings' =
          Append(mentorshipBookings,
                 [id |-> nextBookingId, slotId |-> ParseInt(r.slotId).n,
                  studentId |-> r.studentId, status |-> "CONFIRMED"])
     /\ nextBookingId' = nextBookingId + 1
     /\ mentorshipSlots' = [mentorshipSlots EXCEPT ![i] = SlotBooked(@)]

\* A handler that yields between its checks and its writes.
BookHandleYielding(r) ==
  /\ r \in inflight
  /\ IF r.pc = "received"
     THEN /\ IF BookStatus(r) = 201
             THEN /\ inflight' =
                       (inflight \ {r}) \cup {[r EXCEPT !.pc = "checked"]}
                  /\ UNCHANGED bookResponses
             ELSE BookReply(r, BookStatus(r))
          /\ UNCHANGED <<mentorshipSlots, mentorshipBookings, nextBookingId>>
     ELSE /\ BookCommit(r)
          /\ BookReply(r, 201)
  /\ raced' = raced \cup RacingPairs(mentorshipSlots', inflight')
  /\ UNCHANGED <<nextSlotId, nextRequest, lastResp>>
  /\ UNCHANGED <<identityVars, authVars, jobVars, driveVars, asked>>

\* A handler that counts the booking before it looks for a repeated one.
BookHandleCountFirst(r) ==
  LET i == SlotIndex(mentorshipSlots, r.slotId)
  IN /\ r \in inflight
     /\ IF i # 0 /\ BookStatus(r) = 409
        THEN /\ mentorshipSlots' = [mentorshipSlots EXCEPT ![i] = SlotBooked(@)]
             /\ UNCHANGED <<mentorshipBookings, nextBookingId>>
        ELSE IF BookStatus(r) = 201
        THEN BookCommit(r)
        ELSE UNCHANGED <<mentorshipSlots, mentorshipBookings, nextBookingId>>
     /\ BookReply(r, BookStatus(r))
     /\ raced' = raced \cup RacingPairs(mentorshipSlots', inflight')
     /\ UNCHANGED <<nextSlotId, nextRequest, lastResp>>
     /\ UNCHANGED <<identityVars, authVars, jobVars, driveVars, asked>>

\* POST /api/mentorship/slots/:slotId/book, run for the in-flight request r:
\* the handler has no await, so its checks and its writes are one step.
BookHandle(r) ==
  /\ r \in inflight
  /\ IF BookStatus(r) = 201
     THEN BookCommit(r)
     ELSE UNCHANGED <<mentorshipSlots, mentorshipBookings, nextBookingId>>
  /\ BookReply(r, BookStatus(r))
  /\ raced' = raced \cup RacingPairs(mentorshipSlots', inflight')
  /\ UNCHANGED <<nextSlotId, nextRequest, lastResp>>
  /\ UNCHANGED <<identityVars, authVars, jobVars, driveVars, asked>>

\* The filter of available-slots.
SlotIsAvailable(slot) ==
  slot.status = "AVAILABLE" /\ slot.currentBookings < slot.maxStudents

\* mentorshipSlots.filter(...) of available-slots, for a slot store.
AvailableSlotList(slots) == SelectSeq(slots, SlotIsAvailable)

\* GET /api/mentorship/available-slots
AvailableSlots(studentId) ==
  /\ lastResp' = Resp("availableSlots", studentId, <<>>, 200, 0,
                      AvailableSlotList(mentorshipSlots), 0)
  /\ UNCHANGED <<identityVars, authVars, jobVars, driveVars, mentorVars,
                 asked>>

\* The entry mySlots returns for a slot: the slot and its bookings.
SlotWithBookings(slot) ==
  [bookings |->
     SelectSeq(mentorshipBookings, LAMBDA b : b.slotId = slot.id)] @@ slot

\* GET /api/alumni/mentorship-slots
MySlots(alumniId) ==
  LET mine == SelectSeq(mentorshipSlots,
                        LAMBDA slot : slot.alumniUserId = alumniId)
  IN /\ lastResp' = Resp("mySlots", alumniId, <<>>, 200, 0,
                         [k \in DOMAIN mine |-> SlotWithBookings(mine[k])], 0)
     /\ UNCHANGED <<identityVars, authVars, jobVars, driveVars, mentorVars,
                    asked>>

NextMentor ==
  \/ \E a \in SlotOwnerIds, s \in SlotStartValues, e \in SlotEndValues,
        m \in MaxStudentsValues :
       CreateSlot(a, s, e, m)
  \/ \E u \in StudentIds, p \in SlotIdParams : BookArrive(u, p)
  \/ \E r \in inflight : BookHandle(r)

\* No mentorship handler reads a profile: one draw of the seeded CGPAs stands
\* for all of them.
SpecMentor == InitOneDraw /\ [][NextMentor]_vars

(***************************************************************************)
(* Drives, applications and eligibility.                                   *)
(***************************************************************************)
\* Values a client may send for companyName, minCgpa, maxBacklogs and
\* allowedBranches (a value that is no array has isArray FALSE).
CompanyNameValues == {Undefined, <<"A">>}
MinCgpaValues == {Undefined, <<>>, <<"8", ".", "2">>, <<"1", "1">>}
MaxBacklogsValues == {Undefined, <<"1">>}
AllowedBranchesValues ==
  {[isArray |-> FALSE, items |-> <<"IT">>],
   [isArray |-> TRUE, items |-> <<"IT", "Electronics">>]}

\* The drive createDrive stores.
NewDrive(tpoId, companyName, minCgpa, maxBacklogs, allowedBranches) ==
  [id |-> nextDriveId,
   companyName |-> companyName,
   minCgpa |-> OrDefault(ParseFloat(minCgpa), 0),
   maxBacklogs |-> OrDefault(ParseInt(maxBacklogs), 0),
   allowedBranches |->
     IF allowedBranches.isArray THEN allowedBranches.items ELSE <<>>,
   createdBy |-> tpoId,
   status |-> "ACTIVE"]

\* POST /api/tpo/drives
CreateDrive(tpoId, companyName, minCgpa, maxBacklogs, allowedBranches) ==
  /\ IF Falsy(companyName) \/ minCgpa = Undefined
     THEN /\ lastResp' = Resp("createDrive", tpoId, <<>>, 400, 0, <<>>, 0)
          /\ UNCHANGED <<drives, nextDriveId>>
     ELSE /\ Len(drives) < MaxDrives
          /\ drives' = Append(drives, NewDrive(tpoId, companyName, minCgpa,
                                               maxBacklogs, allowedBranches))
          /\ nextDriveId' = nextDriveId + 1
          /\ lastResp' =
               Resp("createDrive", tpoId, <<>>, 201, nextDriveId, <<>>, 0)
  /\ UNCHANGED <<applications, nextApplicationId>>
  /\ UNCHANGED <<identityVars, authVars, jobVars, mentorVars, asked>>

\* Values a client may send as the :driveId route parameter.
DriveIdParams == {<<"1">>, <<"2", "a">>, <<"x">>}

\* drives.find(d => d.id === parseInt(req.params.driveId)), as an index; 0
\* when there is none.
DriveIndex(driveIdParam) ==
  First({i \in DOMAIN drives :
           ~ParseInt(driveIdParam).nan
           /\ drives[i].id = ParseInt(driveIdParam).n})

\* array.includes(x)
Includes(array, x) == \E i \in DOMAIN array : array[i] = x

\* A filter that turns away a student whose CGPA equals the minimum.
EligibleStudentStrict(profile, drive) ==
  IF profile.cgpa <= drive.minCgpa THEN FALSE
  ELSE IF profile.currentBacklogs > drive.maxBacklogs THEN FALSE
  ELSE IF Len(drive.allowedBranches) > 0
          /\ ~Includes(drive.allowedBranches, profile.branch) THEN FALSE
  ELSE TRUE

\* The filter of eligible-students: its three early returns, then true.
EligibleStudent(profile, drive) ==
  IF profile.cgpa < drive.minCgpa THEN FALSE
  ELSE IF profile.currentBacklogs > drive.maxBacklogs THEN FALSE
  ELSE IF Len(drive.allowedBranches) > 0
          /\ ~Includes(drive.allowedBranches, profile.branch) THEN FALSE
  ELSE TRUE

\* The entry eligible-students returns for a profile.
EligibleEntry(profile) ==
  [userId |-> profile.userId, branch |-> profile.branch,
   cgpa |-> profile.cgpa, currentBacklogs |-> profile.currentBacklogs]

\* studentProfiles.filter(...).map(...) for the drive at index i.
EligibleList(i) ==
  LET kept == SelectSeq(studentProfiles,
                        LAMBDA p : EligibleStudent(p, drives[i]))
  IN [k \in DOMAIN kept |-> EligibleEntry(kept[k])]

\* GET /api/tpo/drives/:driveId/eligible-students
EligibleStudents(tpoId, driveIdParam) ==
  LET i == DriveIndex(driveIdParam)
  IN /\ lastResp' =
          IF i = 0
          THEN Resp("eligibleStudents", tpoId, driveIdParam, 404, 0, <<>>, 0)
          ELSE Resp("eligibleStudents", tpoId, driveIdParam, 200, 0,
                    EligibleList(i), Len(EligibleList(i)))
     /\ UNCHANGED <<identityVars, authVars, jobVars, driveVars, mentorVars,
                    asked>>

\* A lookup of the student's application that compares the wrong field.
ExistingApplicationWrongField(driveIdParam, studentId) ==
  First({k \in DOMAIN applications :
           /\ applications[k].driveId = ParseInt(driveIdParam).n
           /\ applications[k].id = studentId})

\* applications.find(a => a.driveId === driveId && a.studentId ===
\* req.user.id), as an index; 0 when there is none.
ExistingApplication(driveIdParam, studentId) ==
  First({k \in DOMAIN applications :
           /\ applications[k].driveId = ParseInt(driveIdParam).n
           /\ applications[k].studentId = studentId})

\* An apply handler that does not look the drive up.
ApplyStatusAnyDrive(studentId, driveIdParam) ==
  IF ExistingApplication(driveIdParam, studentId) # 0 THEN 409 ELSE 201

\* The status the apply handler answers with.
ApplyStatus(studentId, driveIdParam) ==
  IF DriveIndex(driveIdParam) = 0 THEN 404
  ELSE IF ExistingApplication(driveIdParam, studentId) # 0 THEN 409
  ELSE 201

\* An application stored as already SELECTED.
NewApplicationSelected(studentId, driveIdParam) ==
  [id |-> nextApplicationId,
   driveId |-> ParseInt(driveIdParam).n,
   studentId |-> studentId,
   status |-> "SELECTED"]

\* The application apply stores.
NewApplication(studentId, driveIdParam) ==
  [id |-> nextApplicationId,
   driveId |-> ParseInt(driveIdParam).n,
   studentId |-> studentId,
   status |-> "APPLIED"]

\* POST /api/students/drives/:driveId/apply
Apply(studentId, driveIdParam) ==
  /\ IF ApplyStatus(studentId, driveIdParam) = 201
     THEN /\ Len(applications) < MaxApplications
          /\ applications' =
               Append(applications, NewApplication(studentId, driveIdParam))
          /\ nextApplicationId' = nextApplicationId + 1
          /\ lastResp' = Resp("apply", studentId, driveIdParam, 201,
                              nextApplicationId, <<>>, 0)
     ELSE /\ lastResp' = Resp("apply", studentId, driveIdParam,
                              ApplyStatus(studentId, driveIdParam), 0, <<>>, 0)
          /\ UNCHANGED <<applications, nextApplicationId>>
  /\ UNCHANGED <<drives, nextDriveId>>
  /\ UNCHANGED <<identityVars, authVars, jobVars, mentorVars, asked>>

\* Drives are created and their eligible students listed, from every draw
\* of the seeded CGPAs.
NextEligibility ==
  \/ \E t \in TpoIds, c \in CompanyNameValues, g \in MinCgpaValues,
        b \in MaxBacklogsValues, a \in AllowedBranchesValues :
       CreateDrive(t, c, g, b, a)
  \/ \E t \in TpoIds, p \in DriveIdParams : EligibleStudents(t, p)

SpecEligibility == Init /\ [][NextEligibility]_vars

\* Drives are created and applied to.  The apply handler reads no profile:
\* one draw of the seeded CGPAs stands for all of them.
NextApply ==
  \/ \E t \in TpoIds, c \in CompanyNameValues, g \in MinCgpaValues,
        b \in MaxBacklogsValues, a \in AllowedBranchesValues :
       CreateDrive(t, c, g, b, a)
  \/ \E u \in StudentIds, p \in DriveIdParams : Apply(u, p)

SpecApply == InitOneDraw /\ [][NextApply]_vars

\* Further values a client may send for minCgpa and maxBacklogs.
MinCgpaAnyValues == MinCgpaValues \cup {<<"-", "1">>, <<"9", "x">>}
MaxBacklogsAnyValues == MaxBacklogsValues \cup {<<"-", "1">>, <<"x">>}

\* Drives are created, with any of these values.
NextDrives ==
  \E t \in TpoIds, c \in CompanyNameValues, g \in MinCgpaAnyValues,
     b \in MaxBacklogsAnyValues, a \in AllowedBranchesValues :
    CreateDrive(t, c, g, b, a)

SpecDrives == InitOneDraw /\ [][NextDrives]_vars

(***************************************************************************)
(* Student profiles and the drives a student is eligible for.              *)
(***************************************************************************)
\* The profile GET /api/students/profile answers with when none is stored.
EmptyProfile(studentId) ==
  [userId |-> studentId, branch |-> "", cgpa |-> 0, currentBacklogs |-> 0,
   skills |-> <<>>]

\* studentProfiles.find(p => p.userId === req.user.id), as an index; 0 when
\* there is none.
ProfileIndex(studentId) ==
  First({k \in DOMAIN studentProfiles : studentProfiles[k].userId = studentId})

\* A profile read that stores the empty profile it returns for a student
\* without one.
GetProfileStoring(studentId) ==
  LET p == ProfileIndex(studentId)
  IN /\ lastResp' =
          Resp("getProfile", studentId, <<>>, 200, 0,
               <<IF p = 0 THEN EmptyProfile(studentId)
                 ELSE studentProfiles[p]>>, 0)
     /\ studentProfiles' =
          IF p = 0 THEN Append(studentProfiles, EmptyProfile(studentId))
          ELSE studentProfiles
     /\ UNCHANGED <<users, nextUserId, authVars, jobVars, driveVars,
                    mentorVars, asked>>

\* GET /api/students/profile: the stored profile, or the empty structure;
\* nothing is pushed to the store.
GetProfile(studentId) ==
  LET p == ProfileIndex(studentId)
  IN /\ lastResp' =
          Resp("getProfile", studentId, <<>>, 200, 0,
               <<IF p = 0 THEN EmptyProfile(studentId)
                 ELSE studentProfiles[p]>>, 0)
     /\ UNCHANGED <<identityVars, authVars, jobVars, driveVars, mentorVars,
                    asked>>

\* Values a client may send for branch (absent, or a text), cgpa and
\* currentBacklogs.
BranchValues ==
  {[present |-> FALSE, text |-> ""], [present |-> TRUE, text |-> ""],
   [present |-> TRUE, text |-> "IT"]}
CgpaValues == {Undefined, <<"8", ".", "2">>}
CurrentBacklogsValues == {Undefined, <<"1">>}

\* The fields of the profile object that are evaluated before its
\* experience field (lines 292-296); skills is no array in the requests
\* modelled.
ProfileFromBody(studentId, branch, cgpa, currentBacklogs) ==
  [userId |-> studentId,
   branch |-> IF branch.present /\ branch.text # "" THEN branch.text ELSE "",
   cgpa |-> OrDefault(ParseFloat(cgpa), 0),
   currentBacklogs |-> OrDefault(ParseInt(currentBacklogs), 0),
   skills |-> <<>>]

\* Whether the identifier experience, read at line 297, has a binding: the
\* handler's destructuring (line 288) does not bind it and no enclosing
\* scope declares it, so reading it throws a ReferenceError.
ExperienceDeclared == FALSE

\* A handler that pushes the profile without looking for a stored one.
PutProfileAlwaysPush(studentId, branch, cgpa, currentBacklogs) ==
  /\ studentProfiles' =
       Append(studentProfiles,
              ProfileFromBody(studentId, branch, cgpa, currentBacklogs))
  /\ lastResp' = Resp("putProfile", studentId, <<>>, 200, 0, <<>>, 0)
  /\ UNCHANGED <<users, nextUserId, authVars>>
  /\ UNCHANGED <<jobVars, driveVars, mentorVars, asked>>

\* PUT /api/students/profile: the profile object is built first, and
\* building it throws at its experience field, before any write; the catch
\* answers 500.
PutProfile(studentId, branch, cgpa, currentBacklogs) ==
  LET existingIndex == ProfileIndex(studentId)
      profile == ProfileFromBody(studentId, branch, cgpa, currentBacklogs)
  IN /\ IF ~ExperienceDeclared
        THEN /\ lastResp' = Resp("putProfile", studentId, <<>>, 500, 0, <<>>, 0)
             /\ UNCHANGED studentProfiles
        ELSE /\ studentProfiles' =
                  IF existingIndex > 0
                  THEN [studentProfiles EXCEPT ![existingIndex] = profile]
                  ELSE Append(studentProfiles, profile)
             /\ lastResp' =
                  Resp("putProfile", studentId, <<>>, 200, 0, <<profile>>, 0)
     /\ UNCHANGED <<users, nextUserId, authVars>>
     /\ UNCHANGED <<jobVars, driveVars, mentorVars, asked>>

\* A filter that does not look at the student's backlogs.
EligibleDriveAnyBacklogs(profile, drive) ==
  IF profile.cgpa < drive.minCgpa THEN FALSE
  ELSE IF Len(drive.allowedBranches) > 0
          /\ ~Includes(drive.allowedBranches, profile.branch) THEN FALSE
  ELSE drive.status = "ACTIVE"

\* The filter of eligible-drives: its three early returns, then
\* drive.status === 'ACTIVE'.
EligibleDrive(profile, drive) ==
  IF profile.cgpa < drive.minCgpa THEN FALSE
  ELSE IF profile.currentBacklogs > drive.maxBacklogs THEN FALSE
  ELSE IF Len(drive.allowedBranches) > 0
          /\ ~Includes(drive.allowedBranches, profile.branch) THEN FALSE
  ELSE drive.status = "ACTIVE"

\* applications.find(a => a.driveId === drive.id && a.studentId ===
\* req.user.id), as an index; 0 when there is none.
ApplicationFor(driveId, studentId) ==
  First({k \in DOMAIN applications :
           /\ applications[k].driveId = driveId
           /\ applications[k].studentId = studentId})

\* null
Null == "null"

\* The entry eligible-drives returns for a drive: the drive, hasApplied and
\* applicationStatus (application?.status || null).
AnnotatedDrive(drive, studentId) ==
  LET k == ApplicationFor(drive.id, studentId)
  IN [hasApplied |-> k # 0,
      applicationStatus |->
        IF k = 0 \/ applications[k].status = "" THEN Null
        ELSE applications[k].status] @@ drive

\* drives.filter(...).map(...) for a profile.
EligibleDriveList(profile, studentId) ==
  LET kept == SelectSeq(drives, LAMBDA d : EligibleDrive(profile, d))
  IN [k \in DOMAIN kept |-> AnnotatedDrive(kept[k], studentId)]

\* The answer of eligible-drives: a response that also carries the message
\* of the answer ("" when it has none) and the number of drives the filter
\* was evaluated on.
DrivesResp(studentId, message, list, evaluated) ==
  [message |-> message, evaluated |-> evaluated]
    @@ Resp("eligibleDrives", studentId, <<>>, 200, 0, list, 0)

\* A handler that filters the drives against the empty profile when the
\* student has none, or one without a branch.
EligibleDrivesUnguarded(studentId) ==
  LET p == ProfileIndex(studentId)
      profile == IF p = 0 THEN EmptyProfile(studentId) ELSE studentProfiles[p]
  IN /\ lastResp' =
          DrivesResp(studentId, "", EligibleDriveList(profile, studentId),
                     Len(drives))
     /\ UNCHANGED <<identityVars, authVars, jobVars, driveVars, mentorVars,
                    asked>>

\* GET /api/students/eligible-drives
EligibleDrives(studentId) ==
  LET p == ProfileIndex(studentId)
  IN /\ lastResp' =
          IF p = 0 \/ studentProfiles[p].branch = ""
          THEN DrivesResp(studentId, "Please complete your profile first",
                          <<>>, 0)
          ELSE DrivesResp(studentId, "",
                          EligibleDriveList(studentProfiles[p], studentId),
                          Len(drives))
     /\ UNCHANGED <<identityVars, authVars, jobVars, driveVars, mentorVars,
                    asked>>

\* The state after construction when every seeded student drew the same
\* CGPA.
InitSameDraw ==
  Init /\ \A j, k \in DOMAIN studentProfiles :
            studentProfiles[j].cgpa = studentProfiles[k].cgpa

\* Drives are created and applied to, and students list the drives they are
\* eligible for.  The answer to a student depends on no profile but that
\* student's: the seeded students draw one CGPA, any of SeedCgpas.
NextDrivesFor ==
  \/ \E t \in TpoIds, c \in CompanyNameValues, g \in MinCgpaValues,
        b \in MaxBacklogsValues, a \in AllowedBranchesValues :
       CreateDrive(t, c, g, b, a)
  \/ \E u \in StudentIds, p \in DriveIdParams : Apply(u, p)
  \/ \E u \in StudentIds : EligibleDrives(u)

SpecDrivesFor == InitSameDraw /\ [][NextDrivesFor]_vars

\* Students read and write their profiles and list the drives they are
\* eligible for, from every draw of the seeded CGPAs.
NextProfile ==
  \/ \E t \in TpoIds, c \in CompanyNameValues, g \in MinCgpaValues,
        b \in MaxBacklogsValues, a \in AllowedBranchesValues :
       CreateDrive(t, c, g, b, a)
  \/ \E u \in StudentIds : GetProfile(u)
  \/ \E u \in StudentIds, b \in BranchValues, c \in CgpaValues,
        k \in CurrentBacklogsValues :
       PutProfile(u, b, c, k)
  \/ \E u \in StudentIds : EligibleDrives(u)

SpecProfile == Init /\ [][NextProfile]_vars

(***************************************************************************)
(* Alumni job referrals.                                                   *)
(***************************************************************************)
\* Values a client may send for companyName and jobTitle of a job, for the
\* status of a job, and as the :jobId route parameter.
JobCompanyValues == {Undefined, <<"A">>}
JobTitleValues == {<<>>, <<"T">>}
JobStatusValues ==
  {Undefined, <<>>, <<"A", "C", "T", "I", "V", "E">>,
   <<"C", "L", "O", "S", "E", "D">>, <<"P", "A", "U", "S", "E", "D">>}
JobIdParams == {<<"1">>, <<"2", "a">>, <<"x">>}

\* The job postJob stores.
NewJob(alumniId, companyName, jobTitle) ==
  [id |-> nextJobId,
   alumniUserId |-> alumniId,
   companyName |-> companyName,
   jobTitle |-> jobTitle,
   status |-> <<"A", "C", "T", "I", "V", "E">>]

\* POST /api/alumni/jobs
PostJob(alumniId, companyName, jobTitle) ==
  /\ IF Falsy(companyName) \/ Falsy(jobTitle)
     THEN /\ lastResp' = Resp("postJob", alumniId, <<>>, 400, 0, <<>>, 0)
          /\ UNCHANGED jobVars
     ELSE /\ Len(alumniJobs) < MaxJobs
          /\ alumniJobs' =
               Append(alumniJobs, NewJob(alumniId, companyName, jobTitle))
          /\ nextJobId' = nextJobId + 1
          /\ lastResp' = Resp("postJob", alumniId, <<>>, 201, nextJobId,
                              <<NewJob(alumniId, companyName, jobTitle)>>, 0)
  /\ UNCHANGED <<identityVars, authVars, driveVars, mentorVars, asked>>

\* A lookup of the job that does not compare the owner.
JobIndexAnyOwner(jobIdParam, alumniId) ==
  First({i \in DOMAIN alumniJobs :
           /\ ~ParseInt(jobIdParam).nan
           /\ alumniJobs[i].id = ParseInt(jobIdParam).n})

\* alumniJobs.findIndex(j => j.id === jobId && j.alumniUserId ===
\* req.user.id) with jobId = parseInt(req.params.jobId), 1-based; 0 when
\* there is none.
JobIndex(jobIdParam, alumniId) ==
  First({i \in DOMAIN alumniJobs :
           /\ ~ParseInt(jobIdParam).nan
           /\ alumniJobs[i].id = ParseInt(jobIdParam).n
           /\ alumniJobs[i].alumniUserId = alumniId})

\* PATCH /api/alumni/jobs/:jobId
SetJobStatus(alumniId, jobIdParam, status) ==
  LET jobIndex == JobIndex(jobIdParam, alumniId)
  IN /\ IF jobIndex = 0
        THEN /\ lastResp' =
                  Resp("setJobStatus", alumniId, jobIdParam, 404, 0, <<>>, 0)
             /\ UNCHANGED alumniJobs
        ELSE /\ alumniJobs' =
                  IF ~Falsy(status)
                  THEN [alumniJobs EXCEPT ![jobIndex].status = status]
                  ELSE alumniJobs
             /\ lastResp' =
                  Resp("setJobStatus", alumniId, jobIdParam, 200, 0,
                       <<alumniJobs'[jobIndex]>>, 0)
     /\ UNCHANGED nextJobId
     /\ UNCHANGED <<identityVars, authVars, driveVars, mentorVars, asked>>

\* GET /api/jobs: the ACTIVE jobs.
ListJobs(userId) ==
  /\ lastResp' =
       Resp("listJobs", userId, <<>>, 200, 0,
            SelectSeq(alumniJobs,
                      LAMBDA job : job.status = <<"A", "C", "T", "I", "V", "E">>),
            0)
  /\ UNCHANGED <<identityVars, authVars, jobVars, driveVars, mentorVars,
                 asked>>

\* GET /api/alumni/jobs: the jobs of the alumnus.
MyJobs(alumniId) ==
  /\ lastResp' =
       Resp("myJobs", alumniId, <<>>, 200, 0,
            SelectSeq(alumniJobs, LAMBDA job : job.alumniUserId = alumniId), 0)
  /\ UNCHANGED <<identityVars, authVars, jobVars, driveVars, mentorVars,
                 asked>>

NextJobs ==
  \/ \E a \in AlumniIds, c \in JobCompanyValues, t \in JobTitleValues :
       PostJob(a, c, t)
  \/ \E a \in AlumniIds, p \in JobIdParams, s \in JobStatusValues :
       SetJobStatus(a, p, s)
  \/ \E u \in StudentIds \cup AlumniIds : ListJobs(u)
  \/ \E a \in AlumniIds : MyJobs(a)

\* No job handler reads a profile: one draw of the seeded CGPAs stands for
\* all of them.
SpecJobs == InitOneDraw /\ [][NextJobs]_vars

(***************************************************************************)
(* PlacementBot.                                                           *)
(***************************************************************************)
\* FAQ 1: "What is the minimum CGPA requirement?"
Faq1Question ==
  <<"W", "h", "a", "t", " ", "i", "s", " ", "t", "h", "e", " ", "m", "i",
    "n", "i", "m", "u", "m", " ", "C", "G", "P", "A", " ", "r", "e", "q",
    "u", "i", "r", "e", "m", "e", "n", "t", "?">>

Faq1Answer ==
  "The minimum CGPA requirement varies by company. Most companies require a minimum of 7.0 CGPA, but some may accept lower. Check individual drive details for specific requirements."

Faq1Tags ==
  <<<<"c", "g", "p", "a">>,
    <<"r", "e", "q", "u", "i", "r", "e", "m", "e", "n", "t">>,
    <<"e", "l", "i", "g", "i", "b", "i", "l", "i", "t", "y">>>>

\* FAQ 2: "Can I apply with backlogs?"
Faq2Question ==
  <<"C", "a", "n", " ", "I", " ", "a", "p", "p", "l", "y", " ", "w", "i",
    "t", "h", " ", "b", "a", "c", "k", "l", "o", "g", "s", "?">>

Faq2Answer ==
  "Some companies allow applications with backlogs, typically up to 2-3 active backlogs. Check the drive details for the maximum allowed backlogs."

Faq2Tags ==
  <<<<"b", "a", "c", "k", "l", "o", "g", "s">>,
    <<"e", "l", "i", "g", "i", "b", "i", "l", "i", "t", "y">>>>

\* FAQ 3: "When is the interview scheduled?"
Faq3Question ==
  <<"W", "h", "e", "n", " ", "i", "s", " ", "t", "h", "e", " ", "i", "n",
    "t", "e", "r", "v", "i", "e", "w", " ", "s", "c", "h", "e", "d", "u",
    "l", "e", "d", "?">>

Faq3Answer ==
  "Interview dates are typically communicated via email/SMS after you apply. Check your Application Tracker for the latest status and interview schedule."

Faq3Tags ==
  <<<<"i", "n", "t", "e", "r", "v", "i", "e", "w">>,
    <<"s", "c", "h", "e", "d", "u", "l", "e">>,
    <<"d", "a", "t", "e">>>>

\* FAQ 4: "Where will the interview be conducted?"
Faq4Question ==
  <<"W", "h", "e", "r", "e", " ", "w", "i", "l", "l", " ", "t", "h", "e",
    " ", "i", "n", "t", "e", "r", "v", "i", "e", "w", " ", "b", "e", " ",
    "c", "o", "n", "d", "u", "c", "t", "e", "d", "?">>

Faq4Answer ==
  "Interview venues are usually communicated along with the interview schedule. Most interviews are conducted on campus, but some companies may conduct online interviews. Check your application details for venue information."

Faq4Tags ==
  <<<<"v", "e", "n", "u", "e">>,
    <<"l", "o", "c", "a", "t", "i", "o", "n">>,
    <<"i", "n", "t", "e", "r", "v", "i", "e", "w">>>>

\* FAQ 5: "How do I check my application status?"
Faq5Question ==
  <<"H", "o", "w", " ", "d", "o", " ", "I", " ", "c", "h", "e", "c", "k",
    " ", "m", "y", " ", "a", "p", "p", "l", "i", "c", "a", "t", "i", "o",
    "n", " ", "s", "t", "a", "t", "u", "s", "?">>

Faq5Answer ==
  "You can check your application status in the Application Tracker section of your dashboard. It will show whether your application is Applied, Interview Scheduled, Selected, or Rejected."

Faq5Tags ==
  <<<<"s", "t", "a", "t", "u", "s">>,
    <<"a", "p", "p", "l", "i", "c", "a", "t", "i", "o", "n">>,
    <<"t", "r", "a", "c", "k", "e", "r">>>>

\* The FAQ corpus.
faqs ==
  <<[id |-> 1, question |-> Faq1Question, answer |-> Faq1Answer,
     tags |-> Faq1Tags],
    [id |-> 2, question |-> Faq2Question, answer |-> Faq2Answer,
     tags |-> Faq2Tags],
    [id |-> 3, question |-> Faq3Question, answer |-> Faq3Answer,
     tags |-> Faq3Tags],
    [id |-> 4, question |-> Faq4Question, answer |-> Faq4Answer,
     tags |-> Faq4Tags],
    [id |-> 5, question |-> Faq5Question, answer |-> Faq5Answer,
     tags |-> Faq5Tags]>>

\* The answer of ask when no FAQ matches.
FallbackAnswer ==
  "I couldn't find a specific answer to your question. Please contact the Placement Office for assistance."

UpperCase ==
  <<"A", "B", "C", "D", "E", "F", "G", "H", "I", "J", "K", "L", "M", "N",
    "O", "P", "Q", "R", "S", "T", "U", "V", "W", "X", "Y", "Z">>
LowerCase ==
  <<"a", "b", "c", "d", "e", "f", "g", "h", "i", "j", "k", "l", "m", "n",
    "o", "p", "q", "r", "s", "t", "u", "v", "w", "x", "y", "z">>

\* c.toLowerCase() for one character.
LowerChar(c) ==
  IF \E k \in DOMAIN UpperCase : UpperCase[k] = c
  THEN LowerCase[CHOOSE k \in DOMAIN UpperCase : UpperCase[k] = c]
  ELSE c

\* s.toLowerCase()
RECURSIVE ToLowerCase(_)
ToLowerCase(s) ==
  IF s = <<>> THEN <<>>
  ELSE <<LowerChar(Head(s))>> \o ToLowerCase(Tail(s))

\* The characters \s matches, among those of the questions modelled.
Whitespace == {" ", "\t"}

\* s without its leading whitespace.
RECURSIVE SkipWhitespace(_)
SkipWhitespace(s) ==
  IF s # <<>> /\ Head(s) \in Whitespace THEN SkipWhitespace(Tail(s)) ELSE s

\* s.split(/\s+/), given the characters cur read since the last separator:
\* every run of whitespace separates two pieces, so a string that starts or
\* ends with whitespace has an empty first or last piece.
RECURSIVE SplitFrom(_, _)
SplitFrom(s, cur) ==
  IF s = <<>> THEN <<cur>>
  ELSE IF Head(s) \in Whitespace
  THEN <<cur>> \o SplitFrom(SkipWhitespace(s), <<>>)
  ELSE SplitFrom(Tail(s), Append(cur, Head(s)))

Split(s) == SplitFrom(s, <<>>)

\* text.includes(part): part is a substring of text (the empty string is a
\* substring of every string).
StrIncludes(text, part) ==
  \E i \in 0 .. (Len(text) - Len(part)) :
    SubSeq(text, i + 1, i + Len(part)) = part

\* The number of tags the lower-cased question includes.
TagHits(tags, query) ==
  Cardinality({t \in DOMAIN tags : StrIncludes(query, ToLowerCase(tags[t]))})

\* The number of pieces of the question (with repetitions) that the
\* lower-cased question text of a FAQ includes.
WordHits(text, questionWords) ==
  Cardinality({w \in DOMAIN questionWords :
                 StrIncludes(text, questionWords[w])})

\* The score of a FAQ for the lower-cased question: 2 for each of its tags
\* the question includes, 1 for each piece of the question its question
\* text includes.
FaqScore(faq, query) ==
  2 * TagHits(faq.tags, query)
    + WordHits(ToLowerCase(faq.question), Split(query))

\* The scores of the FAQs i, i+1, ... of the corpus (faqs.map).
RECURSIVE ScoresFrom(_, _)
ScoresFrom(i, query) ==
  IF i > Len(faqs) THEN <<>>
  ELSE <<FaqScore(faqs[i], query)>> \o ScoresFrom(i + 1, query)

Scores(query) == ScoresFrom(1, query)

\* The indices of the corpus in the set given, sorted by descending score;
\* Array.prototype.sort is stable, equal scores keep the corpus order.
SortedByScore(indices, scores) ==
  LET Before(i, j) ==
        scores[i] > scores[j] \/ (scores[i] = scores[j] /\ i < j)
      Rank(i) == 1 + Cardinality({j \in indices : Before(j, i)})
  IN [k \in 1 .. Cardinality(indices) |->
        CHOOSE i \in indices : Rank(i) = k]

\* faqs.map(...).filter(faq => faq.score > 0).sort(...), as indices of the
\* corpus.
MatchedFAQs(query) ==
  LET scores == Scores(query)
  IN SortedByScore({i \in DOMAIN faqs : scores[i] > 0}, scores)

\* array.slice(from, to), with the 0-based bounds of the code.
Slice(array, from, to) ==
  SubSeq(array, from + 1, IF to < Len(array) THEN to ELSE Len(array))

\* The answer of ask: a response that also carries the answer text.
BotResp(question, status, answer, related) ==
  [answer |-> answer] @@ Resp("ask", 0, question, status, 0, related, 0)

\* The questions a client may ask: absent, empty, or up to MaxPieces of
\* these pieces one after the other.
QuestionPieces ==
  {<<" ">>, <<"z", "q">>, <<"C", "G", "P", "A">>, <<"t", "h", "e">>,
   <<"b", "a", "c", "k", "l", "o", "g", "s">>,
   <<"i", "n", "t", "e", "r", "v", "i", "e", "w">>}

RECURSIVE Questions(_)
Questions(n) ==
  IF n = 0 THEN {<<>>}
  ELSE Questions(n - 1)
         \cup {q \o p : q \in Questions(n - 1), p \in QuestionPieces}

QuestionValues == {Undefined} \cup Questions(MaxPieces)

\* POST /api/bot/ask.  The handler reads and writes no store: the questions
\* answered are counted to bound the run.
Ask(question) ==
  LET query == ToLowerCase(question)
      matchedFAQs == MatchedFAQs(query)
      related == Slice(matchedFAQs, 1, 4)
  IN /\ asked < MaxQuestions
     /\ asked' = asked + 1
     /\ lastResp' =
          IF Falsy(question)
          THEN BotResp(question, 400, "Question is required", <<>>)
          ELSE IF Len(matchedFAQs) = 0
          THEN BotResp(question, 200, FallbackAnswer, Slice(faqs, 0, 3))
          ELSE BotResp(question, 200, faqs[matchedFAQs[1]].answer,
                       [k \in DOMAIN related |->
                          [question |-> faqs[related[k]].question,
                           answer |-> faqs[related[k]].answer]])
     /\ UNCHANGED <<identityVars, authVars, jobVars, driveVars, mentorVars>>

NextBot == \E q \in QuestionValues : Ask(q)

\* The bot reads no store: one draw of the seeded CGPAs stands for all of
\* them.
SpecBot == InitOneDraw /\ [][NextBot]_vars

(***************************************************************************)
(* Analytics, and the applications of a student.                           *)
(***************************************************************************)
\* The summary of a drive that applications returns with an application.
DriveSummary(drive) == [id |-> drive.id, companyName |-> drive.companyName]

\* The entry applications returns for an application: the application and
\* the summary of its drive, null when there is no such drive.
ApplicationWithDrive(app) ==
  LET i == First({n \in DOMAIN drives : drives[n].id = app.driveId})
  IN [drive |-> <<IF i = 0 THEN [id |-> 0, companyName |-> <<Null>>]
                  ELSE DriveSummary(drives[i])>>] @@ app

\* GET /api/students/applications
StudentApplications(studentId) ==
  LET mine == SelectSeq(applications, LAMBDA a : a.studentId = studentId)
  IN /\ lastResp' =
          Resp("applications", studentId, <<>>, 200, 0,
               [k \in DOMAIN mine |-> ApplicationWithDrive(mine[k])], 0)
     /\ UNCHANGED <<identityVars, authVars, jobVars, driveVars, mentorVars,
                    asked>>

\* applications.filter(a => a.studentId === profile.userId && a.status ===
\* 'SELECTED'), as indices.
SelectedApplicationsOf(userId) ==
  {k \in DOMAIN applications :
     /\ applications[k].studentId = userId
     /\ applications[k].status = "SELECTED"}

\* An increment of placed by the number of SELECTED applications.
PlacedIncrementPerApplication(profile) ==
  Cardinality(SelectedApplicationsOf(profile.userId))

\* What the forEach of stats adds to placed for a profile: 1 when the
\* student has a SELECTED application.
PlacedIncrement(profile) ==
  IF Cardinality(SelectedApplicationsOf(profile.userId)) > 0 THEN 1 ELSE 0

\* profile.branch || 'Unknown'
BranchKey(profile) == IF profile.branch = "" THEN "Unknown" ELSE profile.branch

\* branchStats after the forEach of stats has visited the first n profiles.
RECURSIVE BranchStatsAfter(_)
BranchStatsAfter(n) ==
  IF n = 0 THEN [b \in {} |-> [total |-> 0, placed |-> 0]]
  ELSE LET before == BranchStatsAfter(n - 1)
           profile == studentProfiles[n]
           branch == BranchKey(profile)
           entry == IF branch \in DOMAIN before THEN before[branch]
                    ELSE [total |-> 0, placed |-> 0]
       IN [b \in (DOMAIN before) \cup {branch} |->
             IF b = branch
             THEN [total |-> entry.total + 1,
                   placed |-> entry.placed + PlacedIncrement(profile)]
             ELSE before[b]]

\* x / y * 100 rounded to a number of decimals, in units of the last
\* decimal (scale 10 for one decimal, 100 for two).
Percentage(x, y, scale) == (2 * x * 100 * scale + y) \div (2 * y)

\* The answer of stats: a response that also carries the figures.
StatsResp(userId) ==
  LET totalStudents == Len(studentProfiles)
      selectedCount ==
        Cardinality({k \in DOMAIN applications :
                       applications[k].status = "SELECTED"})
  IN [totalStudents |-> totalStudents,
      totalDrives |-> Len(drives),
      totalApplications |-> Len(applications),
      selectedCount |-> selectedCount,
      placementRate |->
        IF totalStudents > 0
        THEN Percentage(selectedCount, totalStudents, 100) ELSE 0,
      branchStats |-> BranchStatsAfter(Len(studentProfiles))]
       @@ Resp("stats", userId, <<>>, 200, 0, <<>>, 0)

\* GET /api/analytics/stats
Stats(userId) ==
  /\ lastResp' = StatsResp(userId)
  /\ UNCHANGED <<identityVars, authVars, jobVars, driveVars, mentorVars,
                 asked>>

\* skills.map(s => s.toLowerCase())
RECURSIVE LowerCaseAll(_)
LowerCaseAll(skills) ==
  IF skills = <<>> THEN <<>>
  ELSE <<ToLowerCase(Head(skills))>> \o LowerCaseAll(Tail(skills))

\* The profiles of the SELECTED applications k, k+1, ... in the order of the
\* application store, one for each such application whose student has one.
RECURSIVE PlacedStudentsFrom(_)
PlacedStudentsFrom(k) ==
  IF k > Len(applications) THEN <<>>
  ELSE (IF /\ applications[k].status = "SELECTED"
           /\ ProfileIndex(applications[k].studentId) # 0
        THEN <<studentProfiles[ProfileIndex(applications[k].studentId)]>>
        ELSE <<>>) \o PlacedStudentsFrom(k + 1)

\* The lower-cased skills of the students given, in the order the two
\* forEach loops visit them.
RECURSIVE SkillsVisited(_)
SkillsVisited(students) ==
  IF students = <<>> THEN <<>>
  ELSE LowerCaseAll(Head(students).skills) \o SkillsVisited(Tail(students))

\* The keys of skillFrequency in insertion order: every skill visited, at
\* its first visit.
RECURSIVE FirstVisits(_)
FirstVisits(visited) ==
  IF visited = <<>> THEN <<>>
  ELSE LET before == FirstVisits(SubSeq(visited, 1, Len(visited) - 1))
           skill == visited[Len(visited)]
       IN IF Includes(before, skill) THEN before ELSE Append(before, skill)

\* Object.entries(skillFrequency): each key with the number of its visits.
RECURSIVE EntriesOf(_, _)
EntriesOf(keys, visited) ==
  IF keys = <<>> THEN <<>>
  ELSE <<[skill |-> Head(keys),
          count |-> Cardinality({i \in DOMAIN visited :
                                   visited[i] = Head(keys)})]>>
         \o EntriesOf(Tail(keys), visited)

\* The counts of the entries given.
RECURSIVE CountsOf(_)
CountsOf(entries) ==
  IF entries = <<>> THEN <<>>
  ELSE <<Head(entries).count>> \o CountsOf(Tail(entries))

\* The recommendations k, k+1, ... for the entries in the order given.
RECURSIVE RecommendationsFrom(_, _, _, _)
RecommendationsFrom(k, order, entries, placedCount) ==
  IF k > Len(order) THEN <<>>
  ELSE <<[skill |-> entries[order[k]].skill,
          frequency |-> entries[order[k]].count,
          percentage |->
            Percentage(entries[order[k]].count, placedCount, 10)]>>
         \o RecommendationsFrom(k + 1, order, entries, placedCount)

\* The recommendations of skill-gap for a profile.
Recommendations(profile) ==
  LET placedStudents == PlacedStudentsFrom(1)
      visited == SkillsVisited(placedStudents)
      studentSkills == LowerCaseAll(profile.skills)
      entries == SelectSeq(EntriesOf(FirstVisits(visited), visited),
                           LAMBDA e : ~Includes(studentSkills, e.skill))
      order == Slice(SortedByScore(DOMAIN entries, CountsOf(entries)), 0, 5)
  IN RecommendationsFrom(1, order, entries, Len(placedStudents))

\* GET /api/analytics/skill-gap
SkillGap(studentId) ==
  LET p == ProfileIndex(studentId)
  IN /\ lastResp' =
          Resp("skillGap", studentId, <<>>, 200, 0,
               IF p = 0 THEN <<>> ELSE Recommendations(studentProfiles[p]), 0)
     /\ UNCHANGED <<identityVars, authVars, jobVars, driveVars, mentorVars,
                    asked>>

\* Drives are created and applied to, and the analytics are read.  The
\* analytics read the branch and the skills of a profile, not its CGPA: one
\* draw of the seeded CGPAs stands for all of them.
NextStats ==
  \/ \E t \in TpoIds, c \in CompanyNameValues, g \in MinCgpaValues,
        b \in MaxBacklogsValues, a \in AllowedBranchesValues :
       CreateDrive(t, c, g, b, a)
  \/ \E u \in StudentIds, p \in DriveIdParams : Apply(u, p)
  \/ \E u \in StudentIds \cup TpoIds : Stats(u)
  \/ \E u \in StudentIds : SkillGap(u)

SpecStats == InitOneDraw /\ [][NextStats]_vars

\* The analytics as functions of the stores.  An application leaves APPLIED
\* by administrative action outside index.js, and a profile gets its branch
\* and skills from outside as well: the stores are drawn, the profiles of
\* the seeded students from the values below and the applications from
\* every store of up to MaxApplications applications of distinct drive and
\* student, APPLIED or SELECTED.
AnyBranchValues == {"", "Electronics"}
AnySkillsValues ==
  {<<<<"J", "a", "v", "a", "S", "c", "r", "i", "p", "t">>,
     <<"R", "e", "a", "c", "t">>>>,
   <<<<"R", "e", "a", "c", "t">>, <<"r", "e", "a", "c", "t">>>>,
   <<<<"A">>, <<"b">>, <<"C">>, <<"d">>, <<"E">>, <<"f">>>>}
AnyStatusValues == {"APPLIED", "SELECTED"}

\* The profile of seeded student i with the branch and the skills given.
AnyProfile(i, branch, skills) ==
  [SeedProfile(i, 75) EXCEPT !.branch = branch, !.skills = skills]

\* The drive createDrive stores as drive k for the body {companyName: 'A',
\* minCgpa: ''}.
AnyDrive(k) ==
  [id |-> k,
   companyName |-> <<"A">>,
   minCgpa |-> 0,
   maxBacklogs |-> 0,
   allowedBranches |-> <<>>,
   createdBy |-> CHOOSE t \in TpoIds : TRUE,
   status |-> "ACTIVE"]

\* The application stores drawn.
AnyApplicationStores ==
  {store \in UNION {[1..n -> [driveId : 1..MaxDrives,
                              studentId : StudentIds,
                              status : AnyStatusValues]] :
                      n \in 0..MaxApplications} :
     \A j, k \in DOMAIN store :
       (/\ store[j].driveId = store[k].driveId
        /\ store[j].studentId = store[k].studentId) => j = k}

InitAnyStores ==
  /\ users = [k \in 1..SeedCount |-> SeedUser(SeedFirst + k - 1)]
  /\ nextUserId = SeedFirst + SeedCount
  /\ \E b \in [1..SeedCount -> AnyBranchValues],
        s \in [1..SeedCount -> AnySkillsValues] :
       studentProfiles =
         [k \in 1..SeedCount |-> AnyProfile(SeedFirst + k - 1, b[k], s[k])]
  /\ drives = [k \in 1..MaxDrives |-> AnyDrive(k)]
  /\ nextDriveId = MaxDrives + 1
  /\ \E store \in AnyApplicationStores :
       /\ applications =
            [k \in DOMAIN store |-> [id |-> k] @@ store[k]]
       /\ nextApplicationId = Len(store) + 1
  /\ mentorshipSlots = <<>>
  /\ nextSlotId = 1
  /\ mentorshipBookings = <<>>
  /\ nextBookingId = 1
  /\ alumniJobs = <<>>
  /\ nextJobId = 1
  /\ asked = 0
  /\ inflight = {}
  /\ nextRequest = 1
  /\ bookResponses = {}
  /\ raced = {}
  /\ lastResp = NoResp
  /\ registrations = {}
  /\ nextRegistration = 1
  /\ registerResponses = {}

NextAnalytics ==
  \/ \E u \in StudentIds \cup TpoIds : Stats(u)
  \/ \E u \in StudentIds : SkillGap(u)

SpecAnalytics == InitAnyStores /\ [][NextAnalytics]_vars

\* The two eligibility views as functions of the profile and the drive.
\* The guard of eligible-drives tells a profile with an empty branch from
\* the others: the profiles of the seeded students are drawn with an empty
\* or a non-empty branch, drives are created, and both views are read.
InitAnyBranch ==
  /\ users = [k \in 1..SeedCount |-> SeedUser(SeedFirst + k - 1)]
  /\ nextUserId = SeedFirst + SeedCount
  /\ \E b \in [1..SeedCount -> AnyBranchValues] :
       studentProfiles =
         [k \in 1..SeedCount |->
            [SeedProfile(SeedFirst + k - 1, 75) EXCEPT !.branch = b[k]]]
  /\ drives = <<>>
  /\ nextDriveId = 1
  /\ applications = <<>>
  /\ nextApplicationId = 1
  /\ mentorshipSlots = <<>>
  /\ nextSlotId = 1
  /\ mentorshipBookings = <<>>
  /\ nextBookingId = 1
  /\ alumniJobs = <<>>
  /\ nextJobId = 1
  /\ asked = 0
  /\ inflight = {}
  /\ nextRequest = 1
  /\ bookResponses = {}
  /\ raced = {}
  /\ lastResp = NoResp
  /\ registrations = {}
  /\ nextRegistration = 1
  /\ registerResponses = {}

NextViews ==
  \/ \E t \in TpoIds, c \in CompanyNameValues, g \in MinCgpaValues,
        b \in MaxBacklogsValues, a \in AllowedBranchesValues :
       CreateDrive(t, c, g, b, a)
  \/ \E t \in TpoIds, p \in DriveIdParams : EligibleStudents(t, p)
  \/ \E u \in StudentIds : EligibleDrives(u)

SpecViews == InitAnyBranch /\ [][NextViews]_vars

\* Every read of the server, over stores filled by the writes.  A read
\* changes no store whatever the stores hold: each store gets at most one
\* entry, from one request of each kind.
ReadQuestionValues == {<<"z", "q">>, <<"C", "G", "P", "A">>}

NextReads ==
  \/ \E t \in TpoIds :
       /\ drives = <<>>
       /\ CreateDrive(t, <<"A">>, <<>>, <<"1">>,
                      [isArray |-> TRUE, items |-> <<"IT", "Electronics">>])
  \/ \E u \in StudentIds :
       applications = <<>> /\ Apply(u, <<"1">>)
  \/ \E a \in SlotOwnerIds :
       mentorshipSlots = <<>> /\ CreateSlot(a, <<"9">>, <<"9">>, <<"2", "a">>)
  \/ \E u \in StudentIds : nextRequest = 1 /\ BookArrive(u, <<"1">>)
  \/ \E r \in inflight : BookHandle(r)
  \/ \E a \in AlumniIds :
       alumniJobs = <<>> /\ PostJob(a, <<"A">>, <<"T">>)
  \/ \E u \in StudentIds : EligibleDrives(u)
  \/ \E t \in TpoIds, p \in DriveIdParams : EligibleStudents(t, p)
  \/ \E u \in StudentIds : StudentApplications(u)
  \/ \E u \in StudentIds : AvailableSlots(u)
  \/ \E a \in AlumniIds : MySlots(a)
  \/ \E u \in StudentIds \cup AlumniIds : ListJobs(u)
  \/ \E a \in AlumniIds : MyJobs(a)
  \/ \E u \in StudentIds : GetProfile(u)
  \/ \E u \in StudentIds \cup TpoIds : Stats(u)
  \/ \E u \in StudentIds : SkillGap(u)
  \/ \E q \in ReadQuestionValues : Ask(q)

SpecReads == InitOneDraw /\ [][NextReads]_vars

(***************************************************************************)
(* Registration.  The handler is asynchronous: it validates the body and   *)
(* looks for a user with the email, then awaits the hash of the password,  *)
(* and appends the user when the hash is there.  Other requests run while  *)
(* it waits.                                                               *)
(***************************************************************************)
\* Values a client may send for email, password and role.
RegisterEmailValues ==
  {Undefined, <<"a", "@", "x">>, <<"A", "@", "x">>, SeedEmail(SeedFirst)}
RegisterPasswordValues == {Undefined, <<"p">>}
RegisterRoleValues == {Undefined, <<"t", "p", "o">>, <<"x">>}

\* c.toUpperCase() for one character.
UpperChar(c) ==
  IF \E k \in DOMAIN LowerCase : LowerCase[k] = c
  THEN UpperCase[CHOOSE k \in DOMAIN LowerCase : LowerCase[k] = c]
  ELSE c

\* s.toUpperCase()
RECURSIVE ToUpperCase(_)
ToUpperCase(s) ==
  IF s = <<>> THEN <<>>
  ELSE <<UpperChar(Head(s))>> \o ToUpperCase(Tail(s))

\* ['TPO', 'STUDENT', 'ALUMNI']
Roles ==
  {<<"T", "P", "O">>, <<"S", "T", "U", "D", "E", "N", "T">>,
   <<"A", "L", "U", "M", "N", "I">>}

\* users.find(u => u.email.toLowerCase() === email.toLowerCase()), as an
\* index; 0 when there is none.
ExistingUser(email) ==
  First({k \in DOMAIN users :
           ToLowerCase(users[k].email) = ToLowerCase(email)})

\* The status the part of register before the await decides: 400 or 409
\* when it answers there, 201 when it goes on to hash the password.
RegisterStatus(email, password, role) ==
  IF Falsy(email) \/ Falsy(password) \/ Falsy(role) THEN 400
  ELSE IF ToUpperCase(role) \notin Roles THEN 400
  ELSE IF ExistingUser(email) # 0 THEN 409
  ELSE 201

\* POST /api/auth/register up to its await: the request is answered, or
\* waits for the hash.
RegisterStart(email, password, role) ==
  /\ nextRegistration <= MaxRegisterRequests
  /\ nextRegistration' = nextRegistration + 1
  /\ IF RegisterStatus(email, password, role) = 201
     THEN /\ registrations' = registrations \cup
               {[rid |-> nextRegistration, email |-> email,
                 role |-> ToUpperCase(role)]}
          /\ UNCHANGED registerResponses
     ELSE /\ registerResponses' = registerResponses \cup
               {[rid |-> nextRegistration, email |-> email,
                 status |-> RegisterStatus(email, password, role),
                 id |-> 0]}
          /\ UNCHANGED registrations
  /\ UNCHANGED <<identityVars, jobVars, driveVars, mentorVars, asked,
                 lastResp>>

\* The user register stores for request r.
NewUser(r) == [id |-> nextUserId, email |-> r.email, role |-> r.role]

\* POST /api/auth/register after its await, for request r: the user is
\* appended under the next id and the request is answered 201.
RegisterFinish(r) ==
  /\ r \in registrations
  /\ registrations' = registrations \ {r}
  /\ users' = Append(users, NewUser(r))
  /\ nextUserId' = nextUserId + 1
  /\ registerResponses' = registerResponses \cup
       {[rid |-> r.rid, email |-> r.email, status |-> 201, id |-> nextUserId]}
  /\ UNCHANGED <<studentProfiles, nextRegistration, jobVars, driveVars,
                 mentorVars, asked, lastResp>>

NextRegister ==
  \/ \E e \in RegisterEmailValues, p \in RegisterPasswordValues,
        r \in RegisterRoleValues :
       RegisterStart(e, p, r)
  \/ \E r \in registrations : RegisterFinish(r)

\* Registration reads no profile: one draw of the seeded CGPAs stands for
\* all of them.
SpecRegister == InitOneDraw /\ [][NextRegister]_vars

(***************************************************************************)
(* Claims about the mentorship scheduler, checked under SpecMentor.        *)
(***************************************************************************)
\* The slot (its index, 0 when unknown) a request names, and whether a
\* student holds a booking on the slot with that index.
SlotOf(r) == SlotIndex(mentorshipSlots, r.slotId)

HoldsBooking(studentId, i) ==
  \E k \in DOMAIN mentorshipBookings :
    /\ mentorshipBookings[k].slotId = mentorshipSlots[i].id
    /\ mentorshipBookings[k].studentId = studentId

\* Request r is answered in this step, with the given status.
Answered(r, status) ==
  /\ r \in inflight
  /\ r \notin inflight'
  /\ \E resp \in bookResponses' \ bookResponses :
       resp.rid = r.rid /\ resp.status = status

\* C1: every stored mentorship slot has currentBookings <= maxStudents,
\* whatever createSlot and book requests were made and whatever value of
\* maxStudents they carried.
C1_BookingsWithinCapacity ==
  \A i \in DOMAIN mentorshipSlots :
    mentorshipSlots[i].currentBookings <= mentorshipSlots[i].maxStudents

\* C2: of two book requests of different students that are in flight
\* together for the last open seat of a slot, at most one is answered 201,
\* and no request is ever left between its capacity check and its writes.
C2_LastSeatHasOneWinner ==
  /\ \A r \in inflight : r.pc = "received"
  /\ \A pair \in raced :
       ~(\A rid \in pair :
           \E resp \in bookResponses : resp.rid = rid /\ resp.status = 201)

\* Two requests raced for a last seat and both were answered: one with 201,
\* the other with 400.
C2_Witness ==
  \E pair \in raced :
    \E won, lost \in bookResponses :
      /\ pair = {won.rid, lost.rid}
      /\ won.status = 201
      /\ lost.status = 400

\* C3: a slot is FULL exactly when currentBookings = maxStudents and
\* AVAILABLE otherwise, and a slot turns FULL in exactly the step in which
\* its currentBookings reaches maxStudents.
C3_StatusMatchesOccupancy ==
  \A i \in DOMAIN mentorshipSlots :
    /\ mentorshipSlots[i].status \in {"AVAILABLE", "FULL"}
    /\ mentorshipSlots[i].status = "FULL"
         <=> mentorshipSlots[i].currentBookings = mentorshipSlots[i].maxStudents

C3_FlipStep ==
  \A i \in DOMAIN mentorshipSlots :
    (mentorshipSlots[i].status = "AVAILABLE"
       /\ mentorshipSlots'[i].status = "FULL")
    <=> (mentorshipSlots[i].currentBookings < mentorshipSlots[i].maxStudents
           /\ mentorshipSlots'[i].currentBookings
                = mentorshipSlots'[i].maxStudents)

\* C3 (the invariant and the step property together): FULL iff at capacity,
\* AVAILABLE otherwise, the flip in exactly the step that fills the slot.
C3_FullIffAtCapacity == [](C3_StatusMatchesOccupancy) /\ [][C3_FlipStep]_vars

\* A slot for two students took its second booking and is FULL.
C3_Witness ==
  \E i \in DOMAIN mentorshipSlots :
    /\ mentorshipSlots[i].maxStudents = 2
    /\ mentorshipSlots[i].currentBookings = 2
    /\ mentorshipSlots[i].status = "FULL"

\* C5: the booking store holds at most one booking per (slotId, studentId).
C5_OneBookingPerSlotAndStudent ==
  \A j, k \in DOMAIN mentorshipBookings :
    (/\ mentorshipBookings[j].slotId = mentorshipBookings[k].slotId
     /\ mentorshipBookings[j].studentId = mentorshipBookings[k].studentId)
    => j = k

\* A student who holds a booking asked again and was answered 409.
C5_Witness ==
  \E resp \in bookResponses :
    /\ resp.status = 409
    /\ \E k \in DOMAIN mentorshipBookings :
         /\ mentorshipBookings[k].studentId = resp.studentId
         /\ mentorshipBookings[k].slotId = ParseInt(resp.slotId).n

\* C6: a book request of a student who already holds a booking on the slot
\* it names is answered 409, whether the slot has free seats or is FULL.
C6_RepeatIsConflict ==
  [][\A r \in inflight :
       (/\ r \notin inflight'
        /\ SlotOf(r) # 0
        /\ HoldsBooking(r.studentId, SlotOf(r)))
       => Answered(r, 409)]_vars

\* C7: a slot that has reached capacity stays at capacity, and every book
\* request on it of a student who holds no booking on it is answered 400;
\* a slot for one student is at capacity, and FULL, from its first booking.
AtCapacity(slot) == slot.currentBookings >= slot.maxStudents

C7_Step ==
  /\ \A i \in DOMAIN mentorshipSlots :
       /\ AtCapacity(mentorshipSlots[i]) => AtCapacity(mentorshipSlots'[i])
       /\ (mentorshipSlots[i].maxStudents = 1
             /\ mentorshipSlots'[i].currentBookings >= 1)
          => mentorshipSlots'[i].status = "FULL"
  /\ \A r \in inflight :
       (/\ r \notin inflight'
        /\ SlotOf(r) # 0
        /\ AtCapacity(mentorshipSlots[SlotOf(r)])
        /\ ~HoldsBooking(r.studentId, SlotOf(r)))
       => Answered(r, 400)

\* C7, as a property of every step: at capacity for good, and 400 for every
\* other student from then on.
C7_FullSlotRejectsOthers == [][C7_Step]_vars

\* A slot for one student is FULL after its first booking, and a student
\* other than its holder was answered 400 on it.
C7_Witness ==
  \E i \in DOMAIN mentorshipSlots, resp \in bookResponses :
    /\ mentorshipSlots[i].maxStudents = 1
    /\ mentorshipSlots[i].currentBookings = 1
    /\ mentorshipSlots[i].status = "FULL"
    /\ resp.status = 400
    /\ SlotIndex(mentorshipSlots, resp.slotId) = i
    /\ ~HoldsBooking(resp.studentId, i)

\* C8: a book request answered 404, 400 or 409 leaves the booking store,
\* every slot and the next booking id as they were.
C8_Step ==
  \A r \in inflight :
    (Answered(r, 404) \/ Answered(r, 400) \/ Answered(r, 409))
    => UNCHANGED <<mentorshipBookings, mentorshipSlots, nextBookingId>>

\* C8, as a property of every step: a failed book request writes nothing.
C8_FailedBookChangesNothing == [][C8_Step]_vars

\* A booking exists, and requests were answered 409 and 400.
C8_Witness ==
  /\ mentorshipBookings # <<>>
  /\ \E resp \in bookResponses : resp.status = 409
  /\ \E resp \in bookResponses : resp.status = 400

\* The bookings (their indices) stored for a slot id.
BookingsOf(bookings, slotId) ==
  {k \in DOMAIN bookings : bookings[k].slotId = slotId}

\* C26: for every slot, currentBookings is the number of bookings stored for
\* the slot's id, and every booking names a slot that exists; a book request
\* answered 201 adds exactly one booking and adds exactly 1 to the
\* currentBookings of the slot it names, and leaves every other slot as it
\* was.
C26_CountMatchesBookings ==
  /\ \A i \in DOMAIN mentorshipSlots :
       mentorshipSlots[i].currentBookings =
         Cardinality(BookingsOf(mentorshipBookings, mentorshipSlots[i].id))
  /\ \A k \in DOMAIN mentorshipBookings :
       \E i \in DOMAIN mentorshipSlots :
         mentorshipSlots[i].id = mentorshipBookings[k].slotId

C26_Step ==
  \A r \in inflight :
    Answered(r, 201)
    => /\ Len(mentorshipBookings') = Len(mentorshipBookings) + 1
       /\ SubSeq(mentorshipBookings', 1, Len(mentorshipBookings))
            = mentorshipBookings
       /\ mentorshipBookings'[Len(mentorshipBookings')].slotId
            = mentorshipSlots[SlotOf(r)].id
       /\ mentorshipBookings'[Len(mentorshipBookings')].studentId
            = r.studentId
       /\ DOMAIN mentorshipSlots' = DOMAIN mentorshipSlots
       /\ mentorshipSlots'[SlotOf(r)].currentBookings
            = mentorshipSlots[SlotOf(r)].currentBookings + 1
       /\ \A j \in DOMAIN mentorshipSlots :
            j # SlotOf(r) => mentorshipSlots'[j] = mentorshipSlots[j]

\* C26 (the invariant and the step property together): the count of a slot
\* is the number of its bookings, and a successful book changes one slot.
C26_BookingsAreCounted ==
  [](C26_CountMatchesBookings) /\ [][C26_Step]_vars

\* A slot holds two bookings and counts two, next to a slot without any.
C26_Witness ==
  \E i, j \in DOMAIN mentorshipSlots :
    /\ mentorshipSlots[i].currentBookings = 2
    /\ Cardinality(BookingsOf(mentorshipBookings, mentorshipSlots[i].id)) = 2
    /\ mentorshipSlots[j].currentBookings = 0
    /\ mentorshipSlots[j].maxStudents >= 1

\* The ids of the slots available-slots returns for a slot store.
AvailableIds(slots) ==
  {AvailableSlotList(slots)[k].id : k \in DOMAIN AvailableSlotList(slots)}

\* C27: in every step, no slot's currentBookings decreases, no FULL slot
\* turns AVAILABLE, and no stored slot that available-slots does not return
\* is returned by it afterwards.
C27_Step ==
  \A i \in DOMAIN mentorshipSlots :
    /\ i \in DOMAIN mentorshipSlots'
    /\ mentorshipSlots'[i].id = mentorshipSlots[i].id
    /\ mentorshipSlots'[i].currentBookings
         >= mentorshipSlots[i].currentBookings
    /\ mentorshipSlots[i].status = "FULL"
       => mentorshipSlots'[i].status = "FULL"
    /\ mentorshipSlots[i].id \notin AvailableIds(mentorshipSlots)
       => mentorshipSlots'[i].id \notin AvailableIds(mentorshipSlots')

\* C27, as a property of every step: the occupancy of a slot only grows.
C27_OccupancyOnlyGrows == [][C27_Step]_vars

\* A slot for two students filled up and is not returned any more, and a
\* later request for it was turned away.
C27_Witness ==
  \E i \in DOMAIN mentorshipSlots, resp \in bookResponses :
    /\ mentorshipSlots[i].maxStudents = 2
    /\ mentorshipSlots[i].status = "FULL"
    /\ mentorshipSlots[i].id \notin AvailableIds(mentorshipSlots)
    /\ resp.status = 400
    /\ SlotIndex(mentorshipSlots, resp.slotId) = i

(***************************************************************************)
(* Claims about applications, checked under SpecApply.                     *)
(***************************************************************************)
\* The applications stored for a drive id and a student.
ApplicationsOf(apps, driveId, studentId) ==
  {k \in DOMAIN apps :
     apps[k].driveId = driveId /\ apps[k].studentId = studentId}

\* The drive ids in the registry.
DriveIds == {drives[i].id : i \in DOMAIN drives}

\* This step is the apply handler answering.
ApplyStep == lastResp'.op = "apply"

\* C4: the store holds at most one application per (driveId, studentId); an
\* apply to an existing drive is answered 201 when the student has no
\* application for it and 409 when the student has one, and after either
\* the store holds exactly one application for the pair.
C4_AtMostOnePerPair ==
  \A j, k \in DOMAIN applications :
    (/\ applications[j].driveId = applications[k].driveId
     /\ applications[j].studentId = applications[k].studentId)
    => j = k

C4_Step ==
  \A d \in DriveIds :
    (ApplyStep /\ ~ParseInt(lastResp'.arg).nan /\ ParseInt(lastResp'.arg).n = d)
    => /\ lastResp'.status =
            IF ApplicationsOf(applications, d, lastResp'.user) = {}
            THEN 201 ELSE 409
       /\ Cardinality(ApplicationsOf(applications', d, lastResp'.user)) = 1

\* C4 (the invariant and the step property together): one application per
\* (driveId, studentId), 201 for the first apply and 409 for every later one.
C4_ApplyOncePerPair == [](C4_AtMostOnePerPair) /\ [][C4_Step]_vars

\* A student who has applied to a drive applied again, was answered 409, and
\* the store holds one application for the pair.
C4_Witness ==
  /\ lastResp.op = "apply"
  /\ lastResp.status = 409
  /\ Cardinality(ApplicationsOf(applications, ParseInt(lastResp.arg).n,
                                lastResp.user)) = 1

\* C9: an apply that names no drive of the registry is answered 404 and
\* stores nothing; an apply to an existing drive by a student without an
\* application for it appends exactly one application, in status APPLIED,
\* for that drive and student.
C9_Step ==
  ApplyStep =>
    LET id == ParseInt(lastResp'.arg)
        student == lastResp'.user
    IN IF id.nan \/ id.n \notin DriveIds
       THEN lastResp'.status = 404 /\ applications' = applications
       ELSE ApplicationsOf(applications, id.n, student) = {}
            => /\ Len(applications') = Len(applications) + 1
               /\ SubSeq(applications', 1, Len(applications)) = applications
               /\ applications'[Len(applications')].driveId = id.n
               /\ applications'[Len(applications')].studentId = student
               /\ applications'[Len(applications')].status = "APPLIED"

\* C9, as a property of every step: 404 and no write for an unknown drive,
\* one APPLIED application for a first apply to an existing drive.
C9_ApplyNeedsDrive == [][C9_Step]_vars

\* An application is stored, and an apply that named no drive was answered
\* 404.
C9_Witness ==
  /\ applications # <<>>
  /\ lastResp.op = "apply"
  /\ lastResp.status = 404
  /\ drives # <<>>

(***************************************************************************)
(* Claims about eligibility, checked under SpecEligibility.                *)
(***************************************************************************)
\* The eligibility predicate of the specification.
IsEligible(P, D) ==
  /\ P.cgpa >= D.minCgpa
  /\ P.currentBacklogs <= D.maxBacklogs
  /\ (D.allowedBranches = <<>>
        \/ P.branch \in {D.allowedBranches[k] : k \in DOMAIN D.allowedBranches})

\* C10: eligible-students for an existing drive returns exactly the profiles
\* that satisfy the eligibility predicate, each once, with eligibleCount
\* the number of students returned; for an unknown drive id it answers 404.
C10_EligibleStudentsExact ==
  lastResp.op = "eligibleStudents" =>
    LET id == ParseInt(lastResp.arg)
    IN IF id.nan \/ id.n \notin DriveIds
       THEN lastResp.status = 404
       ELSE \E i \in DOMAIN drives :
              /\ drives[i].id = id.n
              /\ lastResp.status = 200
              /\ {lastResp.list[k] : k \in DOMAIN lastResp.list}
                   = {EligibleEntry(studentProfiles[j]) :
                        j \in {n \in DOMAIN studentProfiles :
                                 IsEligible(studentProfiles[n], drives[i])}}
              /\ \A j, k \in DOMAIN lastResp.list :
                   lastResp.list[j].userId = lastResp.list[k].userId => j = k
              /\ lastResp.count = Len(lastResp.list)

\* A drive whose minimum CGPA equals a student's CGPA was listed: that
\* student is returned, and another student is not.
C10_Witness ==
  /\ lastResp.op = "eligibleStudents"
  /\ lastResp.status = 200
  /\ \E i \in DOMAIN drives, j \in DOMAIN studentProfiles :
       /\ drives[i].id = ParseInt(lastResp.arg).n
       /\ studentProfiles[j].cgpa = drives[i].minCgpa
       /\ \E k \in DOMAIN lastResp.list :
            lastResp.list[k].userId = studentProfiles[j].userId
  /\ lastResp.count < Len(studentProfiles)

(***************************************************************************)
(* Claims about the drives a student is eligible for, checked under        *)
(* SpecDrivesFor.                                                          *)
(***************************************************************************)
\* The stored profiles of a student (their indices).
ProfilesOf(studentId) ==
  {k \in DOMAIN studentProfiles : studentProfiles[k].userId = studentId}

\* The fields of a drive.
DriveFields ==
  {"id", "companyName", "minCgpa", "maxBacklogs", "allowedBranches",
   "createdBy", "status"}

\* C11: for a student with a profile and a non-empty branch, eligible-drives
\* returns exactly the drives that are ACTIVE and satisfy the eligibility
\* predicate against that profile, each once and as stored; an entry has
\* hasApplied true iff an application of that student for that drive is
\* stored, and applicationStatus is that application's status, null when
\* there is none.
C11_EligibleDrivesExact ==
  \A p \in ProfilesOf(lastResp.user) :
    (lastResp.op = "eligibleDrives" /\ studentProfiles[p].branch # "")
    => /\ lastResp.status = 200
       /\ {lastResp.list[k].id : k \in DOMAIN lastResp.list}
            = {drives[i].id :
                 i \in {n \in DOMAIN drives :
                          /\ drives[n].status = "ACTIVE"
                          /\ IsEligible(studentProfiles[p], drives[n])}}
       /\ \A j, k \in DOMAIN lastResp.list :
            lastResp.list[j].id = lastResp.list[k].id => j = k
       /\ \A k \in DOMAIN lastResp.list :
            LET entry == lastResp.list[k]
                mine == ApplicationsOf(applications, entry.id, lastResp.user)
            IN /\ \E i \in DOMAIN drives :
                    \A f \in DriveFields : entry[f] = drives[i][f]
               /\ entry.hasApplied <=> mine # {}
               /\ IF mine = {} THEN entry.applicationStatus = Null
                  ELSE \A a \in mine :
                         entry.applicationStatus = applications[a].status

\* A student with a backlog listed two drives: the one applied to is
\* returned with hasApplied and the status APPLIED, the other one allows no
\* backlog and is not returned.
C11_Witness ==
  /\ lastResp.op = "eligibleDrives"
  /\ Len(drives) = 2
  /\ Len(lastResp.list) = 1
  /\ lastResp.list[1].hasApplied
  /\ lastResp.list[1].applicationStatus = "APPLIED"
  /\ \E p \in ProfilesOf(lastResp.user), i \in DOMAIN drives :
       /\ studentProfiles[p].currentBacklogs > drives[i].maxBacklogs
       /\ studentProfiles[p].cgpa >= drives[i].minCgpa

\* C12: a student who has no profile, or whose profile has an empty branch,
\* is answered by eligible-drives with an empty list of drives and the
\* guidance message, whatever drives exist, and the filter is evaluated on
\* no drive.
C12_IncompleteProfileGetsGuidance ==
  (/\ lastResp.op = "eligibleDrives"
   /\ \/ ProfilesOf(lastResp.user) = {}
      \/ \E p \in ProfilesOf(lastResp.user) : studentProfiles[p].branch = "")
  => /\ lastResp.status = 200
     /\ lastResp.list = <<>>
     /\ lastResp.message = "Please complete your profile first"
     /\ lastResp.evaluated = 0

\* A student without a profile listed the drives while a drive open to
\* every branch, CGPA and backlog count 0 existed, and got the message.
C12_Witness ==
  /\ lastResp.op = "eligibleDrives"
  /\ ProfilesOf(lastResp.user) = {}
  /\ \E i \in DOMAIN drives :
       /\ drives[i].minCgpa = 0
       /\ drives[i].allowedBranches = <<>>
  /\ lastResp.message = "Please complete your profile first"

(***************************************************************************)
(* Claims about the profile store, checked under SpecProfile.              *)
(***************************************************************************)
\* This step is a profile read or a profile write answering.
ProfileStep == lastResp'.op \in {"getProfile", "putProfile"}

\* C13: a profile is created lazily: after a profile read (GET) or a profile
\* write (PUT) by a student, the profile store holds a profile with that
\* student's userId.
C13_ProfileCreatedLazily ==
  [][ProfileStep =>
       \E k \in DOMAIN studentProfiles' :
         studentProfiles'[k].userId = lastResp'.user]_vars

\* C14: the profile store holds at most one profile per userId, and a
\* profile write by a student changes no profile of another student.
C14_OneProfilePerUser ==
  \A j, k \in DOMAIN studentProfiles :
    studentProfiles[j].userId = studentProfiles[k].userId => j = k

C14_WriteStep ==
  lastResp'.op = "putProfile" =>
    \A k \in DOMAIN studentProfiles :
      studentProfiles[k].userId # lastResp'.user
      => /\ k \in DOMAIN studentProfiles'
         /\ studentProfiles'[k] = studentProfiles[k]

\* C14 (the invariant and the step property together): one profile per
\* userId, and a write of student S leaves the profiles of the others alone.
C14_ProfilesArePerStudent ==
  [](C14_OneProfilePerUser) /\ [][C14_WriteStep]_vars

\* A student with a stored profile sent a profile write while the store
\* held the profile of another student.
C14_Witness ==
  /\ lastResp.op = "putProfile"
  /\ ProfilesOf(lastResp.user) # {}
  /\ \E k \in DOMAIN studentProfiles :
       studentProfiles[k].userId # lastResp.user

(***************************************************************************)
(* Claims about the values createDrive and createSlot store, checked under *)
(* SpecDrives and SpecMentor.                                              *)
(***************************************************************************)
\* C15: every drive createDrive stored has 0 <= minCgpa <= 10 (a CGPA is
\* counted in tenths) and maxBacklogs >= 0.
C15_DriveCriteriaInRange ==
  \A i \in DOMAIN drives :
    /\ 0 <= drives[i].minCgpa
    /\ drives[i].minCgpa <= 100
    /\ drives[i].maxBacklogs >= 0

\* C16: every slot createSlot stored has maxStudents >= 1, and a slot
\* without a booking has currentBookings = 0 and status AVAILABLE.
C16_SlotCapacityAtLeastOne ==
  \A i \in DOMAIN mentorshipSlots :
    /\ mentorshipSlots[i].maxStudents >= 1
    /\ (\A k \in DOMAIN mentorshipBookings :
          mentorshipBookings[k].slotId # mentorshipSlots[i].id)
       => /\ mentorshipSlots[i].currentBookings = 0
          /\ mentorshipSlots[i].status = "AVAILABLE"

(***************************************************************************)
(* Claims about job referrals, checked under SpecJobs.                     *)
(***************************************************************************)
\* The jobs (their indices) with the id a route parameter names and the
\* given owner.
JobsOf(jobs, jobIdParam, alumniId) ==
  {i \in DOMAIN jobs :
     /\ ~ParseInt(jobIdParam).nan
     /\ jobs[i].id = ParseInt(jobIdParam).n
     /\ jobs[i].alumniUserId = alumniId}

\* C17: a setJobStatus by an alumnus who does not own the job it names, or
\* on an unknown job id, is answered 404 and leaves every job unchanged;
\* the status of an existing job changes only in a setJobStatus of its
\* owner on that job, and no job is removed.
C17_Step ==
  /\ (/\ lastResp'.op = "setJobStatus"
      /\ JobsOf(alumniJobs, lastResp'.arg, lastResp'.user) = {})
     => /\ lastResp'.status = 404
        /\ alumniJobs' = alumniJobs
  /\ \A i \in DOMAIN alumniJobs :
       /\ i \in DOMAIN alumniJobs'
       /\ alumniJobs'[i].status # alumniJobs[i].status
          => /\ lastResp'.op = "setJobStatus"
             /\ lastResp'.status = 200
             /\ i \in JobsOf(alumniJobs, lastResp'.arg, lastResp'.user)

C18_JobStatusIsActiveOrClosed ==
  \A i \in DOMAIN alumniJobs :
    alumniJobs[i].status \in
      {<<"A", "C", "T", "I", "V", "E">>, <<"C", "L", "O", "S", "E", "D">>}

(***************************************************************************)
(* Claims about the bot, checked under SpecBot.                            *)
(***************************************************************************)
\* The words of a string: its maximal runs of characters that are no
\* whitespace.
Words(s) ==
  {SubSeq(s, i, j) : <<i, j>> \in
     {ij \in (DOMAIN s) \X (DOMAIN s) :
        /\ ij[1] <= ij[2]
        /\ \A k \in ij[1] .. ij[2] : s[k] \notin Whitespace
        /\ ij[1] = 1 \/ s[ij[1] - 1] \in Whitespace
        /\ ij[2] = Len(s) \/ s[ij[2] + 1] \in Whitespace}}

\* A question has no keyword overlap with the corpus: it includes no tag of
\* a FAQ, and no question text of a FAQ includes one of its words.
NoKeywordOverlap(question) ==
  \A f \in DOMAIN faqs :
    /\ \A t \in DOMAIN faqs[f].tags :
         ~StrIncludes(ToLowerCase(question), ToLowerCase(faqs[f].tags[t]))
    /\ \A w \in Words(ToLowerCase(question)) :
         ~StrIncludes(ToLowerCase(faqs[f].question), w)

\* The bot answered a question that is not empty.
AnsweredQuestion == lastResp.op = "ask" /\ ~Falsy(lastResp.arg)

\* C19: a non-empty question without keyword overlap with the corpus,
\* whatever whitespace it starts with, ends with or consists of, is answered
\* with the fallback answer and the first three FAQs of the corpus.
C19_NoOverlapGetsFallback ==
  (AnsweredQuestion /\ NoKeywordOverlap(lastResp.arg))
  => /\ lastResp.status = 200
     /\ lastResp.answer = FallbackAnswer
     /\ lastResp.list = SubSeq(faqs, 1, 3)

\* C20: when a FAQ scores above 0, the related FAQs of the answer are those
\* at ranks 2, 3 and 4 of the whole corpus sorted by descending score, as
\* {question, answer} pairs: three of them.
C20_RelatedAreRanksTwoToFour ==
  (AnsweredQuestion
   /\ \E f \in DOMAIN faqs :
        FaqScore(faqs[f], ToLowerCase(lastResp.arg)) > 0)
  => LET ranking ==
           SortedByScore(DOMAIN faqs, Scores(ToLowerCase(lastResp.arg)))
     IN /\ lastResp.status = 200
        /\ Len(lastResp.list) = 3
        /\ \A k \in 1 .. 3 :
             lastResp.list[k] =
               [question |-> faqs[ranking[k + 1]].question,
                answer |-> faqs[ranking[k + 1]].answer]

\* The tokens of a string, as the positions <<first, last>> of its maximal
\* runs of characters that are no whitespace.
TokenSpans(s) ==
  {ij \in (DOMAIN s) \X (DOMAIN s) :
     /\ ij[1] <= ij[2]
     /\ \A k \in ij[1] .. ij[2] : s[k] \notin Whitespace
     /\ ij[1] = 1 \/ s[ij[1] - 1] \in Whitespace
     /\ ij[2] = Len(s) \/ s[ij[2] + 1] \in Whitespace}

\* The score of the specification for a FAQ: 2 for each of its tags that is
\* a substring of the lower-cased question, 1 for each token of the
\* lower-cased question that is a substring of its lower-cased question
\* text.
TokenScore(faq, question) ==
  LET query == ToLowerCase(question)
  IN 2 * Cardinality({t \in DOMAIN faq.tags :
                        StrIncludes(query, ToLowerCase(faq.tags[t]))})
     + Cardinality({ij \in TokenSpans(query) :
                      StrIncludes(ToLowerCase(faq.question),
                                  SubSeq(query, ij[1], ij[2]))})

\* C21: the score the handler gives each FAQ is 2 for each tag that is a
\* substring of the lower-cased question plus 1 for each token of it that is
\* a substring of the FAQ's lower-cased question text; when a FAQ scores
\* above 0 the answer is that of the first FAQ of the corpus with the
\* maximum score.
C21_ScoreAndBestMatch ==
  AnsweredQuestion =>
    /\ \A f \in DOMAIN faqs :
         FaqScore(faqs[f], ToLowerCase(lastResp.arg))
           = TokenScore(faqs[f], lastResp.arg)
    /\ \A f \in DOMAIN faqs :
         (/\ TokenScore(faqs[f], lastResp.arg) > 0
          /\ \A g \in DOMAIN faqs :
               \/ TokenScore(faqs[g], lastResp.arg)
                    < TokenScore(faqs[f], lastResp.arg)
               \/ (/\ TokenScore(faqs[g], lastResp.arg)
                        = TokenScore(faqs[f], lastResp.arg)
                   /\ f <= g))
         => lastResp.answer = faqs[f].answer

(***************************************************************************)
(* Claims about the analytics over reachable stores, checked under         *)
(* SpecStats.                                                              *)
(***************************************************************************)
\* C25: every stored application has status APPLIED, every answer of stats
\* reports selectedCount = 0 and every answer of skill-gap carries no
\* recommendation.
C25_ApplicationsStayApplied ==
  /\ \A k \in DOMAIN applications : applications[k].status = "APPLIED"
  /\ lastResp.op = "stats" => lastResp.selectedCount = 0
  /\ lastResp.op = "skillGap" => lastResp.list = <<>>

\* Applications of two students are stored and one student that has a
\* profile has read the skill gap.
C25_Witness ==
  /\ lastResp.op = "skillGap"
  /\ ProfileIndex(lastResp.user) # 0
  /\ \E k, m \in DOMAIN applications :
       applications[k].studentId # applications[m].studentId

(***************************************************************************)
(* Claims about the analytics as functions of the stores, checked under    *)
(* SpecAnalytics.                                                          *)
(***************************************************************************)
\* The profiles (their indices) stats counts under a branch.
ProfilesUnder(branch) ==
  {k \in DOMAIN studentProfiles : BranchKey(studentProfiles[k]) = branch}

\* The student of profile k has a SELECTED application.
IsPlaced(k) ==
  \E a \in DOMAIN applications :
    /\ applications[a].studentId = studentProfiles[k].userId
    /\ applications[a].status = "SELECTED"

\* C22: in every answer of stats, for every branch bucket, placed is the
\* number of students of the branch that have a SELECTED application, each
\* counted once, and is at most total, the number of profiles of the branch.
C22_PlacedAtMostTotal ==
  lastResp.op = "stats" =>
    \A b \in DOMAIN lastResp.branchStats :
      /\ lastResp.branchStats[b].placed <= lastResp.branchStats[b].total
      /\ lastResp.branchStats[b].total = Cardinality(ProfilesUnder(b))
      /\ lastResp.branchStats[b].placed =
           Cardinality({k \in ProfilesUnder(b) : IsPlaced(k)})

\* stats has answered while a student of the Unknown bucket has two SELECTED
\* applications.
C22_Witness ==
  /\ lastResp.op = "stats"
  /\ \E k \in ProfilesUnder("Unknown") :
       Cardinality(SelectedApplicationsOf(studentProfiles[k].userId)) = 2

C29_Step ==
  (ApplyStep /\ Len(applications') > Len(applications)) =>
    LET app == applications'[Len(applications')]
        p == ProfileIndex(app.studentId)
    IN /\ p # 0
       /\ studentProfiles[p].branch # ""
       /\ \E d \in DOMAIN drives :
            /\ drives[d].id = app.driveId
            /\ EligibleDrive(studentProfiles[p], drives[d])

\* C29: apply creates an application only when, at the time of the call,
\* the drive is ACTIVE and the profile of the student satisfies the drive's
\* eligibility predicate, that is only for a drive eligible-drives lists for
\* the student.
C29_ApplyOnlyWhenEligible == [][C29_Step]_vars

(***************************************************************************)
(* Claims about the two eligibility views, checked under SpecViews.        *)
(***************************************************************************)
\* The ids of the drives of the last answer of eligible-drives.
DrivesListed == {lastResp.list[k].id : k \in DOMAIN lastResp.list}

\* The students eligible-students lists for the drive at index d.
StudentsListed(d) == {EligibleList(d)[k].userId : k \in DOMAIN EligibleList(d)}

\* The drive at index d is in the answer of eligible-drives exactly when
\* eligible-students lists its caller for that drive.
ViewsAgreeOn(d) ==
  (drives[d].id \in DrivesListed) <=> (lastResp.user \in StudentsListed(d))

ReadOps ==
  {"eligibleDrives", "eligibleStudents", "applications", "availableSlots",
   "mySlots", "listJobs", "myJobs", "getProfile", "stats", "skillGap", "ask"}

\* A step in which a read has answered.
ReadStep == lastResp' # lastResp /\ lastResp'.op \in ReadOps

\* The stores and the id counters.
stores ==
  <<users, studentProfiles, drives, applications, alumniJobs,
    mentorshipSlots, mentorshipBookings, nextUserId, nextDriveId,
    nextApplicationId, nextJobId, nextSlotId, nextBookingId>>

UniqueEmails ==
  \A j, k \in DOMAIN users :
    ToLowerCase(users[j].email) = ToLowerCase(users[k].email) => j = k

\* C30: under any interleaving of register requests no two stored users
\* have the same email compared case-insensitively, and of two requests
\* with the same email at most one is answered 201.
C30_UniqueEmailsUnderRaces ==
  /\ UniqueEmails
  /\ \A r1, r2 \in registerResponses :
       (/\ r1.rid # r2.rid
        /\ ToLowerCase(r1.email) = ToLowerCase(r2.email)
        /\ r1.status = 201)
       => r2.status # 201

====
